---- MODULE Spec2Model ----
(***************************************************************************)
(* Aurora Gold: the chat orchestrator (server/services/chatbot.js), the    *)
(* price estimator (server/services/goldPrice.js), the chat route          *)
(* (server/routes/chat.js) and the order routes (server/routes/gold.js)    *)
(* as state machines.                                                      *)
(*                                                                         *)
(* A JavaScript string is a sequence of one-element strings, one element   *)
(* per UTF-16 code unit ("RUPEE" stands for U+20B9).  A JavaScript value   *)
(* is a record tagged by t: "string", "number", "bool", "null", "array",   *)
(* "undefined".  Time is Date.now() in milliseconds.                        *)
(***************************************************************************)
EXTENDS Integers, Sequences, FiniteSets, TLC

\* ------------------------------------------------------------------------
\* String primitives (String.prototype.*)
\* ------------------------------------------------------------------------

\* \s of a JavaScript regular expression, and what trim() strips
IsWS(c) == c \in {" ", "\n", "\t", "\r"}

IsDigit(c) == c \in {"0", "1", "2", "3", "4", "5", "6", "7", "8", "9"}

UpperCase == <<"A","B","C","D","E","F","G","H","I","J","K","L","M",
               "N","O","P","Q","R","S","T","U","V","W","X","Y","Z">>

LowerCase == <<"a","b","c","d","e","f","g","h","i","j","k","l","m",
               "n","o","p","q","r","s","t","u","v","w","x","y","z">>

IsLetter(c) == \E i \in 1..26 : c = UpperCase[i] \/ c = LowerCase[i]

\* \w of a regular expression: [A-Za-z0-9_]
IsWordChar(c) == IsLetter(c) \/ IsDigit(c) \/ c = "_"

LowerChar(c) ==
  IF \E i \in 1..26 : UpperCase[i] = c
  THEN LowerCase[CHOOSE i \in 1..26 : UpperCase[i] = c]
  ELSE c

\* s.toLowerCase()
toLowerCase(s) == [i \in 1..Len(s) |-> LowerChar(s[i])]

\* s.substring(i-1, j) in 1-based inclusive positions
Slice(s, i, j) == IF j < i THEN <<>> ELSE SubSeq(s, i, j)

\* number of leading / trailing whitespace units
RECURSIVE LeadWS(_, _)
LeadWS(s, i) == IF i <= Len(s) /\ IsWS(s[i]) THEN LeadWS(s, i + 1) ELSE i - 1

RECURSIVE TrailWS(_, _)
TrailWS(s, j) == IF j >= 1 /\ IsWS(s[j]) THEN TrailWS(s, j - 1) ELSE j

\* s.trim()
trim(s) == Slice(s, LeadWS(s, 1) + 1, TrailWS(s, Len(s)))

\* whether p occurs in s at position i
MatchAt(s, p, i) ==
  /\ i >= 1
  /\ i + Len(p) - 1 <= Len(s)
  /\ \A k \in 1..Len(p) : s[i + k - 1] = p[k]

\* s.startsWith(p)
startsWith(s, p) == MatchAt(s, p, 1)

\* s.indexOf(p, from) in 1-based positions; 0 when absent
indexOfFrom(s, p, from) ==
  LET hits == {i \in from..(Len(s) - Len(p) + 1) : MatchAt(s, p, i)}
  IN IF hits = {} THEN 0 ELSE CHOOSE i \in hits : \A j \in hits : i <= j

\* s.includes(p)
includes(s, p) == indexOfFrom(s, p, 1) # 0

\* a string is blank when it is empty or whitespace only
IsBlankString(s) == trim(s) = <<>>

\* ------------------------------------------------------------------------
\* JavaScript values
\* ------------------------------------------------------------------------

JsString(s) == [t |-> "string", s |-> s]
JsNumber(n) == [t |-> "number", n |-> n]
JsBool(b) == [t |-> "bool", b |-> b]
JsNull == [t |-> "null"]
JsUndefined == [t |-> "undefined"]
JsArray(a) == [t |-> "array", a |-> a]

\* ToBoolean(v)
Truthy(v) ==
  CASE v.t = "string" -> v.s # <<>>
    [] v.t = "number" -> v.n # 0
    [] v.t = "bool" -> v.b
    [] v.t = "array" -> TRUE
    [] v.t = "object" -> TRUE
    [] OTHER -> FALSE

\* ------------------------------------------------------------------------
\* JSON.parse on an object text.  Modelled grammar: objects with string
\* keys, strings with the escapes \" \\ \/ \n \t \r, integers, true, false,
\* null, arrays; whitespace as in ECMA-404.  A parse is [ok, pos, v]: pos is
\* the first position not consumed.  ok = FALSE is a thrown SyntaxError.
\* ------------------------------------------------------------------------

JsonFail == [ok |-> FALSE, pos |-> 0, v |-> JsUndefined]

JsonOk(pos, v) == [ok |-> TRUE, pos |-> pos, v |-> v]

SkipWS(s, i) == LeadWS(s, i) + 1

RECURSIVE JsonStringBody(_, _, _)
JsonStringBody(s, i, acc) ==
  IF i > Len(s) THEN JsonFail
  ELSE IF s[i] = "\"" THEN JsonOk(i + 1, acc)
  ELSE IF s[i] \in {"\n", "\t", "\r"} THEN JsonFail
  ELSE IF s[i] = "\\" THEN
    IF i + 1 > Len(s) THEN JsonFail
    ELSE IF s[i + 1] \in {"\"", "\\", "/"}
      THEN JsonStringBody(s, i + 2, Append(acc, s[i + 1]))
    ELSE IF s[i + 1] = "n" THEN JsonStringBody(s, i + 2, Append(acc, "\n"))
    ELSE IF s[i + 1] = "t" THEN JsonStringBody(s, i + 2, Append(acc, "\t"))
    ELSE IF s[i + 1] = "r" THEN JsonStringBody(s, i + 2, Append(acc, "\r"))
    ELSE JsonFail
  ELSE JsonStringBody(s, i + 1, Append(acc, s[i]))

\* a string token starting at the quote at i; v is the character sequence
JsonString(s, i) ==
  IF i <= Len(s) /\ s[i] = "\"" THEN JsonStringBody(s, i + 1, <<>>) ELSE JsonFail

DigitValue(c) ==
  CASE c = "0" -> 0 [] c = "1" -> 1 [] c = "2" -> 2 [] c = "3" -> 3
    [] c = "4" -> 4 [] c = "5" -> 5 [] c = "6" -> 6 [] c = "7" -> 7
    [] c = "8" -> 8 [] c = "9" -> 9

\* end of the run of digits that starts at i (i - 1 when there is none)
RECURSIVE DigitsEnd(_, _)
DigitsEnd(s, i) == IF i <= Len(s) /\ IsDigit(s[i]) THEN DigitsEnd(s, i + 1) ELSE i - 1

\* the decimal number written by the digits s[i..j]
RECURSIVE DigitsValue(_, _, _)
DigitsValue(s, i, j) ==
  IF j < i THEN 0 ELSE DigitsValue(s, i, j - 1) * 10 + DigitValue(s[j])

JsonNumber(s, i) ==
  LET neg == i <= Len(s) /\ s[i] = "-"
      d == IF neg THEN i + 1 ELSE i
      e == DigitsEnd(s, d)
  IN IF e < d THEN JsonFail
     ELSE IF s[d] = "0" /\ e > d THEN JsonFail
     ELSE JsonOk(e + 1, JsNumber(IF neg THEN 0 - DigitsValue(s, d, e)
                                        ELSE DigitsValue(s, d, e)))

RECURSIVE JsonValue(_, _)
RECURSIVE JsonElements(_, _, _)
RECURSIVE JsonMembers(_, _, _)

\* value with the whitespace around it
JsonValue(s, i0) ==
  LET i == SkipWS(s, i0)
      r == IF i > Len(s) THEN JsonFail
           ELSE IF s[i] = "\"" THEN
             LET q == JsonString(s, i)
             IN IF q.ok THEN JsonOk(q.pos, JsString(q.v)) ELSE JsonFail
           ELSE IF s[i] = "-" \/ IsDigit(s[i]) THEN JsonNumber(s, i)
           ELSE IF MatchAt(s, <<"t","r","u","e">>, i) THEN JsonOk(i + 4, JsBool(TRUE))
           ELSE IF MatchAt(s, <<"f","a","l","s","e">>, i) THEN JsonOk(i + 5, JsBool(FALSE))
           ELSE IF MatchAt(s, <<"n","u","l","l">>, i) THEN JsonOk(i + 4, JsNull)
           ELSE IF s[i] = "[" THEN
             LET j == SkipWS(s, i + 1)
             IN IF j <= Len(s) /\ s[j] = "]" THEN JsonOk(j + 1, JsArray(<<>>))
                ELSE JsonElements(s, i + 1, <<>>)
           ELSE JsonFail
  IN IF r.ok THEN JsonOk(SkipWS(s, r.pos), r.v) ELSE JsonFail

\* the elements of an array after "[" or ",", up to and including "]"
JsonElements(s, i, acc) ==
  LET r == JsonValue(s, i)
  IN IF ~r.ok \/ r.pos > Len(s) THEN JsonFail
     ELSE IF s[r.pos] = "," THEN JsonElements(s, r.pos + 1, Append(acc, r.v))
     ELSE IF s[r.pos] = "]" THEN JsonOk(r.pos + 1, JsArray(Append(acc, r.v)))
     ELSE JsonFail

\* the members of an object after "{" or ",", up to and including "}";
\* v is the sequence of [k, v] pairs in source order
JsonMembers(s, i0, acc) ==
  LET i == SkipWS(s, i0)
      k == JsonString(s, i)
      c == IF k.ok THEN SkipWS(s, k.pos) ELSE 0
      r == IF k.ok /\ c <= Len(s) /\ s[c] = ":" THEN JsonValue(s, c + 1) ELSE JsonFail
      m == Append(acc, [k |-> k.v, v |-> r.v])
  IN IF ~r.ok \/ r.pos > Len(s) THEN JsonFail
     ELSE IF s[r.pos] = "," THEN JsonMembers(s, r.pos + 1, m)
     ELSE IF s[r.pos] = "}" THEN JsonOk(r.pos + 1, m)
     ELSE JsonFail

\* JSON.parse(s) for a text that starts with "{": [ok, v] with v the members
JsonParseObject(s) ==
  LET i == SkipWS(s, 1)
      j == SkipWS(s, i + 1)
      r == IF i > Len(s) \/ s[i] # "{" THEN JsonFail
           ELSE IF j <= Len(s) /\ s[j] = "}" THEN JsonOk(j + 1, <<>>)
           ELSE JsonMembers(s, i + 1, <<>>)
  IN IF r.ok /\ SkipWS(s, r.pos) > Len(s) THEN [ok |-> TRUE, v |-> r.v]
     ELSE [ok |-> FALSE, v |-> <<>>]

\* obj[key] of a parsed object: the last member with that key wins
JsonGet(members, key) ==
  LET hits == {n \in 1..Len(members) : members[n].k = key}
  IN IF hits = {} THEN JsUndefined
     ELSE members[CHOOSE n \in hits : \A m \in hits : m <= n].v

\* ------------------------------------------------------------------------
\* Chat orchestrator: pure parts of ChatbotService
\* ------------------------------------------------------------------------

\* this.cacheExpiry, in ms
cacheExpiry == 1200000

\* this.minRequestInterval, in ms
minRequestInterval == 3000

\* the size bound of setCachedResponse
MaxCacheSize == 100

\* the default price of getFallbackResponse and getErrorResponse
DefaultGoldPrice == 6850

\* this.goldInvestmentKeywords
goldInvestmentKeywords == <<
    <<"g","o","l","d">>,
    <<"i","n","v","e","s","t">>,
    <<"b","u","y">>,
    <<"p","u","r","c","h","a","s","e">>,
    <<"p","o","r","t","f","o","l","i","o">>,
    <<"p","r","i","c","e">>,
    <<"r","a","t","e">>,
    <<"s","a","v","i","n","g","s">>,
    <<"m","o","n","e","y">>,
    <<"i","n","v","e","s","t","m","e","n","t">>,
    <<"r","e","t","u","r","n","s">>,
    <<"p","r","o","f","i","t">>,
    <<"m","a","r","k","e","t">> >>

GreetingPrefixes == <<
    <<"h","i">>,
    <<"h","e","l","l","o">>,
    <<"h","e","y">>,
    <<"g","o","o","d">>,
    <<"g","r","e","e","t","i","n","g","s">> >>

Intent(category, confidence) == [category |-> category, confidence |-> confidence]

\* analyzeIntent with the greeting rule tried before the keyword rules
analyzeIntentGreetingFirst(message) ==
  LET lowerMessage == toLowerCase(message)
      goldKeywords == {k \in 1..Len(goldInvestmentKeywords) :
                         includes(lowerMessage, goldInvestmentKeywords[k])}
      has(w) == includes(lowerMessage, w)
  IN IF \E g \in 1..Len(GreetingPrefixes) : startsWith(lowerMessage, GreetingPrefixes[g])
       THEN Intent("greeting", 9)
     ELSE IF goldKeywords # {} THEN
       IF has(<<"b","u","y">>) \/ has(<<"p","u","r","c","h","a","s","e">>)
         THEN Intent("purchase_intent", 9)
       ELSE IF has(<<"p","r","i","c","e">>) \/ has(<<"r","a","t","e">>)
         THEN Intent("price_inquiry", 8)
       ELSE IF has(<<"p","o","r","t","f","o","l","i","o">>)
               \/ has(<<"h","o","l","d","i","n","g","s">>)
         THEN Intent("portfolio_check", 9)
       ELSE Intent("gold_general", 7)
     ELSE Intent("general", 5)

\* analyzeIntent(message); confidence is in tenths (0.9 is 9)
analyzeIntent(message) ==
  LET lowerMessage == toLowerCase(message)
      goldKeywords == {k \in 1..Len(goldInvestmentKeywords) :
                         includes(lowerMessage, goldInvestmentKeywords[k])}
      has(w) == includes(lowerMessage, w)
  IN IF goldKeywords # {} THEN
       IF has(<<"b","u","y">>) \/ has(<<"p","u","r","c","h","a","s","e">>)
         THEN Intent("purchase_intent", 9)
       ELSE IF has(<<"p","r","i","c","e">>) \/ has(<<"r","a","t","e">>)
         THEN Intent("price_inquiry", 8)
       ELSE IF has(<<"p","o","r","t","f","o","l","i","o">>)
               \/ has(<<"h","o","l","d","i","n","g","s">>)
         THEN Intent("portfolio_check", 9)
       ELSE Intent("gold_general", 7)
     ELSE IF \E g \in 1..Len(GreetingPrefixes) : startsWith(lowerMessage, GreetingPrefixes[g])
       THEN Intent("greeting", 9)
     ELSE Intent("general", 5)

\* the categories this.fallbackResponses has an entry for
FallbackCategories == {"greeting", "gold_general", "purchase_intent", "portfolio_check"}

\* this.fallbackResponses[category].message
fallbackMessage(category) ==
  CASE category = "greeting" ->
      <<"H","e","l","l","o","!"," ","I","'","m"," ","A","u","r","o","r","a",
        " ","A","I",","," ","y","o","u","r"," ","g","o","l","d"," ","i","n",
        "v","e","s","t","m","e","n","t"," ","a","s","s","i","s","t","a","n",
        "t","."," ","R","e","a","d","y"," ","t","o"," ","e","x","p","l","o",
        "r","e"," ","s","m","a","r","t"," ","g","o","l","d"," ","i","n","v",
        "e","s","t","m","e","n","t","s","?">>
    [] category = "gold_general" ->
      <<"G","o","l","d"," ","i","s"," ","a"," ","s","t","a","b","l","e"," ",
        "i","n","v","e","s","t","m","e","n","t"," ","o","p","t","i","o","n",
        "."," ","V","i","s","i","t"," ","o","u","r"," ","B","u","y"," ","G",
        "o","l","d"," ","p","a","g","e"," ","f","o","r"," ","c","u","r","r",
        "e","n","t"," ","m","a","r","k","e","t"," ","c","o","n","d","i","t",
        "i","o","n","s"," ","a","n","d"," ","e","a","s","y"," ","i","n","v",
        "e","s","t","i","n","g","!">>
    [] category = "purchase_intent" ->
      <<"G","r","e","a","t"," ","c","h","o","i","c","e","!"," ","V","i","s",
        "i","t"," ","t","h","e"," ","B","u","y"," ","G","o","l","d"," ","p",
        "a","g","e"," ","t","o"," ","s","t","a","r","t"," ","i","n","v","e",
        "s","t","i","n","g","."," ","I"," ","r","e","c","o","m","m","e","n",
        "d"," ","s","t","a","r","t","i","n","g"," ","w","i","t","h"," ",
        "RUPEE","1","0","0","0"," ","-"," ","RUPEE","2","5","0","0"," ","f",
        "o","r"," ","d","i","v","e","r","s","i","f","i","c","a","t","i","o",
        "n",".">>
    [] category = "portfolio_check" ->
      <<"T","o"," ","c","h","e","c","k"," ","y","o","u","r"," ","p","o","r",
        "t","f","o","l","i","o",","," ","p","l","e","a","s","e"," ","l","o",
        "g"," ","i","n","."," ","A","f","t","e","r"," ","i","n","v","e","s",
        "t","i","n","g"," ","o","n"," ","t","h","e"," ","B","u","y"," ","G",
        "o","l","d"," ","p","a","g","e",","," ","y","o","u"," ","c","a","n",
        " ","t","r","a","c","k"," ","y","o","u","r"," ","h","o","l","d","i",
        "n","g","s","!">>

\* the categories suggestionMap has an entry for
SuggestionCategories ==
  {"greeting", "gold_general", "purchase_intent", "portfolio_check", "price_inquiry"}

\* getDefaultSuggestions(intent): the suggestionMap row that is used
getDefaultSuggestions(intent) ==
  [table |-> "suggestionMap",
   row |-> IF intent.category \in SuggestionCategories
           THEN intent.category ELSE "gold_general"]

\* the decimal digits of a natural number, as String(n) writes them
RECURSIVE NumberToString(_)
NumberToString(n) ==
  LET d == <<"0","1","2","3","4","5","6","7","8","9">>[(n % 10) + 1]
  IN IF n < 10 THEN <<d>> ELSE Append(NumberToString(n \div 10), d)

\* s.replace(pat, by) for a string pattern: the first occurrence only
replaceFirst(s, pat, by) ==
  LET i == indexOfFrom(s, pat, 1)
  IN IF i = 0 THEN s
     ELSE Slice(s, 1, i - 1) \o by \o Slice(s, i + Len(pat), Len(s))

\* the fields every reply path adds
Reply(message, suggestions, source, intent, confidence, goldPrice) ==
  [message |-> message,
   suggestions |-> suggestions,
   source |-> source,
   metadata |-> [intent |-> intent.category, confidence |-> confidence,
                 goldPrice |-> goldPrice, source |-> source],
   shouldOfferPurchase |-> intent.category = "purchase_intent",
   requireLogin |-> intent.category = "portfolio_check",
   suggestedAmount |-> IF intent.category = "purchase_intent" THEN 1000 ELSE 0]

\* getFallbackResponse(intent, goldPrice); goldPrice 0 is a falsy price
getFallbackResponse(intent, goldPrice) ==
  LET row == IF intent.category \in FallbackCategories
             THEN intent.category ELSE "gold_general"
      price == IF goldPrice # 0 THEN goldPrice ELSE DefaultGoldPrice
  IN Reply(JsString(replaceFirst(fallbackMessage(row), <<"R","s"," ","X","X","X">>,
                                 <<"RUPEE">> \o NumberToString(price))),
           [table |-> "fallbackResponses", row |-> row],
           "fallback", intent, intent.confidence, price)

\* getErrorResponse(); confidence 0.3 is 3
getErrorResponse ==
  [message |-> JsString(
      <<"I"," ","a","p","o","l","o","g","i","z","e",","," ","b","u","t"," ",
        "I","'","m"," ","h","a","v","i","n","g"," ","a"," ","t","e","m","p",
        "o","r","a","r","y"," ","i","s","s","u","e","."," ","L","e","t"," ",
        "m","e"," ","h","e","l","p"," ","y","o","u"," ","w","i","t","h"," ",
        "g","o","l","d"," ","i","n","v","e","s","t","m","e","n","t"," ","o",
        "p","p","o","r","t","u","n","i","t","i","e","s"," ","-"," ","w","o",
        "u","l","d"," ","y","o","u"," ","l","i","k","e"," ","t","o"," ","k",
        "n","o","w"," ","a","b","o","u","t"," ","c","u","r","r","e","n","t",
        " ","g","o","l","d"," ","p","r","i","c","e","s","?">>),
   suggestions |-> [table |-> "error", row |-> "error"],
   source |-> "error",
   metadata |-> [intent |-> "error", confidence |-> 3,
                 goldPrice |-> DefaultGoldPrice, source |-> "error"],
   shouldOfferPurchase |-> TRUE,
   requireLogin |-> FALSE,
   suggestedAmount |-> 500]

\* the literal "message" with its quotes, and "suggestions" with its quotes
QuotedMessage == <<"\"","m","e","s","s","a","g","e","\"">>

QuotedSuggestions ==
  <<"\"","s","u","g","g","e","s","t","i","o","n","s","\"">>

\* smallest position >= from holding one of the characters cs; 0 when none
FirstOf(s, cs, from) ==
  LET hits == {j \in from..Len(s) : s[j] \in cs}
  IN IF hits = {} THEN 0 ELSE CHOOSE j \in hits : \A k \in hits : j <= k

\* aiText.match(/\{[^{}]*"message"[^{}]*"suggestions"[^{}]*\}/): the matched
\* text ([0] of the match), <<>> when there is no match.  A match runs from
\* a "{" to the next brace, which must be "}"; the leftmost one is returned.
matchJsonObject(aiText) ==
  LET closes(i) == FirstOf(aiText, {"{", "}"}, i + 1)
      fits(i) ==
        /\ aiText[i] = "{"
        /\ closes(i) # 0
        /\ aiText[closes(i)] = "}"
        /\ LET inner == Slice(aiText, i + 1, closes(i) - 1)
               m == indexOfFrom(inner, QuotedMessage, 1)
           IN m # 0 /\ indexOfFrom(inner, QuotedSuggestions, m + Len(QuotedMessage)) # 0
      starts == {i \in 1..Len(aiText) : fits(i)}
  IN IF starts = {} THEN <<>>
     ELSE LET i == CHOOSE a \in starts : \A b \in starts : a <= b
          IN Slice(aiText, i, closes(i))

\* aiText.match(/"message"\s*:\s*"([^"]+)"/): group 1 of the leftmost match,
\* <<>> when there is no match (a matched group is never empty)
matchMessageValue(aiText) ==
  LET colon(p) == SkipWS(aiText, p + Len(QuotedMessage))
      open(p) == SkipWS(aiText, colon(p) + 1)
      close(p) == FirstOf(aiText, {"\""}, open(p) + 1)
      fits(p) ==
        /\ MatchAt(aiText, QuotedMessage, p)
        /\ colon(p) <= Len(aiText) /\ aiText[colon(p)] = ":"
        /\ open(p) <= Len(aiText) /\ aiText[open(p)] = "\""
        /\ close(p) > open(p) + 1
      starts == {p \in 1..Len(aiText) : fits(p)}
  IN IF starts = {} THEN <<>>
     ELSE LET p == CHOOSE a \in starts : \A b \in starts : a <= b
          IN Slice(aiText, open(p) + 1, close(p) - 1)

\* aiText.split('.')[0] + '.'
firstSentenceOf(aiText) ==
  LET dot == FirstOf(aiText, {"."}, 1)
  IN (IF dot = 0 THEN aiText ELSE Slice(aiText, 1, dot - 1)) \o <<".">>

\* the fixed price-aware message of the last strategy
genericMessage(goldPrice) ==
  <<"I","'","m"," ","h","e","r","e"," ","t","o"," ","h","e","l","p"," ","y",
    "o","u"," ","w","i","t","h"," ","g","o","l","d"," ","i","n","v","e","s",
    "t","m","e","n","t","."," ","C","u","r","r","e","n","t"," ","p","r","i",
    "c","e"," ","i","s"," ","RUPEE">>
  \o NumberToString(goldPrice) \o <<"/","g",".">>

\* suggestions of the JSON strategy: the parsed array, else the defaults
jsonSuggestions(parsed, intent) ==
  IF parsed.t = "array" THEN [table |-> "parsed", row |-> parsed]
  ELSE getDefaultSuggestions(intent)

\* parseGeminiResponse(aiText, intent, goldPrice): the strategies in order;
\* a SyntaxError of JSON.parse is caught by the function's catch, which
\* returns getFallbackResponse(intent, goldPrice)
parseGeminiResponse(aiText, intent, goldPrice) ==
  LET jsonMatch == matchJsonObject(aiText)
      parsed == JsonParseObject(jsonMatch)
      pMessage == JsonGet(parsed.v, <<"m","e","s","s","a","g","e">>)
      pSuggestions == JsonGet(parsed.v, <<"s","u","g","g","e","s","t","i","o","n","s">>)
      messageMatch == matchMessageValue(aiText)
      firstSentence == firstSentenceOf(aiText)
      mk(message, suggestions, source) ==
        Reply(message, suggestions, source, intent, intent.confidence, goldPrice)
  IN IF /\ ~startsWith(aiText, <<"{">>)
        /\ ~includes(aiText, QuotedMessage)
        /\ Len(aiText) < 300
       THEN mk(JsString(trim(aiText)), getDefaultSuggestions(intent), "gemini_text")
     ELSE IF jsonMatch # <<>> /\ ~parsed.ok
       THEN getFallbackResponse(intent, goldPrice)
     ELSE IF jsonMatch # <<>> /\ Truthy(pMessage) /\ Truthy(pSuggestions)
       THEN mk(pMessage, jsonSuggestions(pSuggestions, intent), "gemini_json")
     ELSE IF messageMatch # <<>>
       THEN mk(JsString(messageMatch), getDefaultSuggestions(intent), "gemini_extracted")
     ELSE IF /\ Len(aiText) > 200
             /\ Len(firstSentence) > 10
             /\ Len(firstSentence) < 200
       THEN mk(JsString(trim(firstSentence)), getDefaultSuggestions(intent),
               "gemini_truncated")
     ELSE mk(JsString(IF Len(aiText) < 300 THEN trim(aiText)
                      ELSE genericMessage(goldPrice)),
             getDefaultSuggestions(intent), "gemini_fallback")

\* the reply message is a non-empty, non-whitespace string
NonBlankMessage(reply) ==
  reply.message.t = "string" /\ ~IsBlankString(reply.message.s)

\* ------------------------------------------------------------------------
\* State
\* ------------------------------------------------------------------------

VARIABLES
  now,              \* Date.now(), ms
  ticks,            \* how many times the clock has advanced
  geminiApiKey,     \* process.env.GEMINI_API_KEY: "unset", "placeholder", "key"
  responseCache,    \* ChatbotService.responseCache, in Map insertion order
  requestQueue,     \* ChatbotService.requestQueue
  processing,       \* ChatbotService.processing
  lastRequestTime,  \* ChatbotService.lastRequestTime
  drains,           \* the processQueue invocations suspended at an await
  calls,            \* the processMessage invocations in progress, by call number
  started,          \* how many processMessage calls have been made
  returned,         \* history: the processMessage call that returned last
  settled,          \* history: the callers whose job promise was settled
  enqueued,         \* history: the callers whose job was pushed, in order
  dispatched,       \* history: the model calls made, [caller, at], in order
  priceCache,       \* GoldPriceService.cache: price, lastUpdated (0 is null)
  lastAiFetch,      \* GoldPriceService.lastAiFetch
  priceCalls,       \* the getCurrentPrice invocations in progress, by call number
  priceStarted,     \* how many price calls have been made
  quote,            \* history: what the price call that returned last gave
  promised,         \* history: the quotes returned since the last refreshPrice
  priceDispatched,  \* history: the latest model call of the price service
  requests,         \* the POST /api/chat handlers in progress, by request number
  posted,           \* how many POST /api/chat requests have arrived
  answer,           \* history: the response sent last, [id, request, status, body]
  answered,         \* history: the requests that were sent a response
  priceHistory,     \* history: what getPriceHistory returned last
  razorpay,         \* process.env.RAZORPAY_KEY_ID, RAZORPAY_SECRET: whether set
  orders,           \* the orders collection, by order id
  goldGrams,        \* users collection: assets.goldGrams by user id
  handlers,         \* the pay and verify handlers in progress, by request number
  handled,          \* how many pay and verify requests have arrived
  gatewayOrders,    \* the orders the gateway created, by gateway order id
  captured,         \* the gateway orders whose payment the gateway captured
  credited,         \* history: the updateAssets calls that were saved, in order
  orderAnswer,      \* history: the response a pay or verify handler sent last
  limitStore,       \* the rate limiters' stores: hits by <<limiter, key>>
  reached,          \* history: the client's requests that reached a handler, by path
  limited,          \* history: how the limiters answered the last request
  chats,            \* the chats collection, in the order the documents were made
  sessionChange,    \* history: the last request for a session and whose session it was
  users,            \* users collection: the documents, a user's id is its position
  signupAnswer,     \* history: the response POST /api/auth/signup sent last
  client,           \* the browser: localStorage auth_token and the provider's user
  authAnswer        \* history: what an authenticated route answered the client last

chatVars == <<responseCache, requestQueue, processing, lastRequestTime,
              drains, calls, started, returned, settled, enqueued, dispatched>>

priceVars == <<priceCache, lastAiFetch, priceCalls, priceStarted, quote, promised,
               priceDispatched>>

routeVars == <<requests, posted, answer, answered>>

historyVars == <<priceHistory>>

orderVars == <<razorpay, orders, goldGrams, handlers, handled, gatewayOrders, captured,
               credited, orderAnswer>>

limitVars == <<limitStore, reached, limited>>

sessionVars == <<chats, sessionChange>>

accountVars == <<users, signupAnswer, client, authAnswer>>

otherVars == <<limitVars, sessionVars, accountVars>>

webVars == <<routeVars, historyVars, orderVars, otherVars>>

\* what the POST /api/chat handler leaves alone
besideRoute == <<now, ticks, geminiApiKey, chatVars, priceVars, historyVars, orderVars,
                 otherVars>>

\* what getPriceHistory leaves alone
besideHistory == <<now, ticks, geminiApiKey, chatVars, priceVars, routeVars, orderVars,
                   otherVars>>

\* what the order routes leave alone
besideOrders == <<now, ticks, geminiApiKey, chatVars, priceVars, routeVars, historyVars,
                  otherVars>>

\* what the rate limiters leave alone
besideLimit == <<now, ticks, geminiApiKey, chatVars, priceVars, routeVars, historyVars,
                 orderVars, sessionVars, accountVars>>

\* what the requests for a chat session leave alone
besideSessions == <<now, ticks, geminiApiKey, chatVars, priceVars, routeVars, historyVars,
                    orderVars, limitVars, accountVars>>

\* what the signup route, the auth middleware and the browser leave alone
besideAccounts == <<geminiApiKey, chatVars, priceVars, routeVars, historyVars,
                    orderVars, limitVars, sessionVars>>

\* Date.now() when the services are constructed.  The real value is about
\* 1.7e12; all that matters is that it exceeds every interval measured from
\* the zero-initialised lastRequestTime.
ProcessStart == 1000000

\* how many times the clock advances in a run
MaxTicks == 1

\* how many processMessage calls a run makes
MaxCalls == 2

\* ------------------------------------------------------------------------
\* Chat response cache (getCachedResponse, setCachedResponse)
\* ------------------------------------------------------------------------

\* positions of key in the cache (at most one)
CachePos(cache, key) == {n \in 1..Len(cache) : cache[n].key = key}

\* responseCache.delete(key)
CacheDelete(cache, key) ==
  IF CachePos(cache, key) = {} THEN cache
  ELSE LET n == CHOOSE i \in CachePos(cache, key) : TRUE
       IN SubSeq(cache, 1, n - 1) \o SubSeq(cache, n + 1, Len(cache))

\* responseCache.set(key, entry): a present key keeps its place in the
\* insertion order, a new key goes last
CacheSet(cache, key, entry) ==
  IF CachePos(cache, key) # {}
  THEN [n \in 1..Len(cache) |-> IF cache[n].key = key THEN entry ELSE cache[n]]
  ELSE Append(cache, entry)

\* getCachedResponse that still returns an entry of exactly the expiry age
cacheHitInclusive(cache, key, t) ==
  \E n \in CachePos(cache, key) : t - cache[n].timestamp <= cacheExpiry

\* getCachedResponse(key) at time t: whether it returns the cached response
cacheHit(cache, key, t) ==
  \E n \in CachePos(cache, key) : t - cache[n].timestamp < cacheExpiry

\* the response getCachedResponse returns on a hit
cachedResponse(cache, key) ==
  cache[CHOOSE n \in CachePos(cache, key) : TRUE].response

\* setCachedResponse that evicts the newest entry of a cache that is over
\* its bound
setCachedResponseEvictsNewest(cache, key, response, t) ==
  LET put == CacheSet(cache, key, [key |-> key, response |-> response, timestamp |-> t])
  IN IF Len(put) > MaxCacheSize THEN CacheDelete(put, put[Len(put)].key) ELSE put

\* setCachedResponse(key, response) at time t
setCachedResponse(cache, key, response, t) ==
  LET put == CacheSet(cache, key, [key |-> key, response |-> response, timestamp |-> t])
  IN IF Len(put) > MaxCacheSize THEN CacheDelete(put, put[1].key) ELSE put

\* ------------------------------------------------------------------------
\* Request throttle queue (getThrottledAIResponse, processQueue)
\* ------------------------------------------------------------------------

\* shouldUseAI that never throttles
shouldUseAIAlways(last, t) == TRUE

\* shouldUseAI() at time t
shouldUseAI(last, t) == t - last >= minRequestInterval

\* checkApiAvailability that takes the placeholder for a key
checkApiAvailabilityAnyValue(key) == key # "unset"

\* checkApiAvailability()
checkApiAvailability(key) == key # "unset" /\ key # "placeholder"

\* processQueue without the test of the processing flag
processQueueEntersUnguarded(flag, queue) == Len(queue) # 0

\* the guard of processQueue: FALSE is the early return
processQueueEnters(flag, queue) == ~(flag \/ Len(queue) = 0)

\* requestQueue.pop() in place of shift(): the newest request is taken
popRequest(queue) ==
  [request |-> queue[Len(queue)], rest |-> SubSeq(queue, 1, Len(queue) - 1)]

\* requestQueue.shift(): the request taken and the queue left
shiftRequest(queue) == [request |-> Head(queue), rest |-> Tail(queue)]

\* processQueue that does not release the processing flag when it ends
loopHeadKeepsFlag(queue, last, t) ==
  IF Len(queue) > 0 THEN
    IF t - last < minRequestInterval THEN
      [queue |-> queue, processing |-> TRUE,
       drain |-> <<[pc |-> "timer", wake |-> t + (minRequestInterval - (t - last)),
                    caller |-> 0]>>,
       calls |-> <<>>]
    ELSE
      [queue |-> Tail(queue), processing |-> TRUE,
       drain |-> <<[pc |-> "gemini", wake |-> 0, caller |-> Head(queue)]>>,
       calls |-> <<[caller |-> Head(queue), at |-> t]>>]
  ELSE
    [queue |-> queue, processing |-> TRUE, drain |-> <<>>, calls |-> <<>>]

\* One pass of processQueue from the head of its while loop, at time t, up
\* to its next await: the queue left, the flag, the suspended drain (<<>>
\* when the loop ended) and the model calls made.
loopHead(queue, last, t) ==
  IF Len(queue) > 0 THEN
    IF t - last < minRequestInterval THEN
      [queue |-> queue, processing |-> TRUE,
       drain |-> <<[pc |-> "timer", wake |-> t + (minRequestInterval - (t - last)),
                    caller |-> 0]>>,
       calls |-> <<>>]
    ELSE
      LET s == shiftRequest(queue)
      IN [queue |-> s.rest, processing |-> TRUE,
          drain |-> <<[pc |-> "gemini", wake |-> 0, caller |-> s.request]>>,
          calls |-> <<[caller |-> s.request, at |-> t]>>]
  ELSE
    [queue |-> queue, processing |-> FALSE, drain |-> <<>>, calls |-> <<>>]

\* the sequence with element n removed
RemoveAt(seq, n) == SubSeq(seq, 1, n - 1) \o SubSeq(seq, n + 1, Len(seq))

\* ------------------------------------------------------------------------
\* processMessage
\* ------------------------------------------------------------------------

NoResult == [kind |-> "none"]

\* processMessage whose outer catch lets the exception through
onProcessingErrorRethrown == [kind |-> "rejected"]

\* what the outer catch of processMessage gives its caller
onProcessingError == [kind |-> "reply", reply |-> getErrorResponse]

\* a processMessage invocation that has just been called
NewCall(message, ctx) ==
  [pc |-> "start", message |-> message, userId |-> ctx.userId,
   cacheKey |-> <<>>, goldPrice |-> ctx.currentGoldPrice,
   intent |-> Intent("none", 0), ai |-> [state |-> "none"],
   result |-> NoResult, path |-> "none"]

\* `${message.toLowerCase().trim()}_${userId || 'guest'}`; userId <<>> is absent
cacheKeyOf(message, userId) ==
  trim(toLowerCase(message)) \o <<"_">>
    \o (IF userId # <<>> THEN userId ELSE <<"g","u","e","s","t">>)

\* the exception path: the call ends with the error reply
Failed(call, cache) ==
  [call |-> [call EXCEPT !.pc = "done", !.result = onProcessingError, !.path = "error"],
   cache |-> cache]

\* the tail of processMessage: cache the response, attach metadata, return
Finish(call, cache, response, t, path) ==
  [call |-> [call EXCEPT
      !.pc = "done",
      !.path = path,
      !.result = [kind |-> "reply",
                  reply |-> [response EXCEPT !.metadata =
                    [intent |-> call.intent.category,
                     confidence |-> call.intent.confidence,
                     goldPrice |-> call.goldPrice,
                     source |-> response.source]]]],
   cache |-> setCachedResponse(cache, call.cacheKey, response, t)]

\* processMessage from analyzeIntent to the await of checkApiAvailability
decideAI(call, cache, last, t) ==
  LET c1 == [call EXCEPT !.intent = analyzeIntent(call.message.s)]
  IN IF shouldUseAI(last, t)
     THEN [call |-> [c1 EXCEPT !.pc = "awaitAvail"], cache |-> cache]
     ELSE Finish(c1, cache, getFallbackResponse(c1.intent, c1.goldPrice), t, "fallback")

\* processMessage from its first line to its first await
beginCall(message, ctx, cache, last, t) ==
  LET call == NewCall(message, ctx)
      key == cacheKeyOf(message.s, ctx.userId)
      c1 == [call EXCEPT !.cacheKey = key]
  IN IF message.t # "string" THEN Failed(call, cache)
     ELSE IF cacheHit(cache, key, t)
       THEN [call |-> [c1 EXCEPT !.pc = "done", !.path = "hit",
                          !.result = [kind |-> "reply",
                                      reply |-> cachedResponse(cache, key)]],
             cache |-> cache]
     ELSE IF ctx.currentGoldPrice # 0
       THEN decideAI(c1, CacheDelete(cache, key), last, t)
     ELSE [call |-> [c1 EXCEPT !.pc = "awaitPrice"], cache |-> CacheDelete(cache, key)]

\* a continuation that the microtask queue holds: it runs before any timer,
\* network reply or new request
MicrotaskPending ==
  \/ \E c \in DOMAIN calls :
       \/ calls[c].pc = "awaitAvail"
       \/ calls[c].pc = "awaitAI" /\ calls[c].ai.state # "pending"
  \/ \E c \in DOMAIN priceCalls : priceCalls[c].pc = "awaitFetch"

\* before any call has returned
NoCall == [id |-> 0, message |-> JsUndefined, result |-> NoResult, path |-> "none"]

\* call c goes on as r.call says: a call that is done returns to its caller
CallStep(c, r) ==
  /\ responseCache' = r.cache
  /\ IF r.call.pc = "done"
     THEN /\ calls' = [i \in DOMAIN calls \ {c} |-> calls[i]]
          /\ returned' = [id |-> c, message |-> r.call.message,
                          result |-> r.call.result, path |-> r.call.path]
     ELSE /\ calls' = [i \in DOMAIN calls \cup {c} |-> IF i = c THEN r.call ELSE calls[i]]
          /\ UNCHANGED returned

\* processMessage(message, context) is called
ProcessMessage(message, ctx) ==
  /\ ~MicrotaskPending
  /\ started' = started + 1
  /\ CallStep(started + 1,
              beginCall(message, ctx, responseCache, lastRequestTime, now))
  /\ UNCHANGED <<now, ticks, geminiApiKey, requestQueue, processing,
                 lastRequestTime, drains, settled, enqueued, dispatched>>
  /\ UNCHANGED <<priceVars, webVars>>

\* goldPriceService.getCurrentPrice() settles for call c
PriceSettles(c, outcome) ==
  /\ ~MicrotaskPending
  /\ c \in DOMAIN calls
  /\ calls[c].pc = "awaitPrice"
  /\ CallStep(c, IF outcome.ok
                 THEN decideAI([calls[c] EXCEPT !.goldPrice = outcome.price],
                               responseCache, lastRequestTime, now)
                 ELSE Failed(calls[c], responseCache))
  /\ UNCHANGED <<now, ticks, geminiApiKey, requestQueue, processing,
                 lastRequestTime, drains, started, settled, enqueued, dispatched>>
  /\ UNCHANGED <<priceVars, webVars>>

\* call c resumes after await checkApiAvailability(): getThrottledAIResponse
\* pushes its job and calls processQueue, or the fallback is used
AvailabilityKnown(c) ==
  /\ c \in DOMAIN calls
  /\ calls[c].pc = "awaitAvail"
  /\ IF checkApiAvailability(geminiApiKey) THEN
       LET queue == Append(requestQueue, c)
           enters == processQueueEnters(processing, queue)
           lh == loopHead(queue, lastRequestTime, now)
       IN /\ calls' = [calls EXCEPT ![c].pc = "awaitAI", ![c].ai = [state |-> "pending"]]
          /\ enqueued' = Append(enqueued, c)
          /\ requestQueue' = IF enters THEN lh.queue ELSE queue
          /\ processing' = IF enters THEN lh.processing ELSE processing
          /\ drains' = IF enters THEN drains \o lh.drain ELSE drains
          /\ dispatched' = IF enters THEN dispatched \o lh.calls ELSE dispatched
          /\ UNCHANGED <<responseCache, returned>>
     ELSE
       /\ CallStep(c, Finish(calls[c], responseCache,
                             getFallbackResponse(calls[c].intent, calls[c].goldPrice),
                             now, "fallback"))
       /\ UNCHANGED <<requestQueue, processing, drains, enqueued, dispatched>>
  /\ UNCHANGED <<now, ticks, geminiApiKey, lastRequestTime, started, settled>>
  /\ UNCHANGED <<priceVars, webVars>>

\* the setTimeout of drain d fires: the request is shifted and dispatched
TimerFires(d) ==
  /\ ~MicrotaskPending
  /\ d \in 1..Len(drains)
  /\ drains[d].pc = "timer"
  /\ now >= drains[d].wake
  /\ IF Len(requestQueue) = 0
     THEN \* request is undefined: the TypeError escapes processQueue
          /\ drains' = RemoveAt(drains, d)
          /\ UNCHANGED <<requestQueue, dispatched>>
     ELSE LET s == shiftRequest(requestQueue)
          IN /\ requestQueue' = s.rest
             /\ drains' = [drains EXCEPT ![d] = [pc |-> "gemini", wake |-> 0,
                                                 caller |-> s.request]]
             /\ dispatched' = Append(dispatched, [caller |-> s.request, at |-> now])
  /\ UNCHANGED <<now, ticks, geminiApiKey, responseCache, processing,
                 lastRequestTime, calls, started, returned, settled, enqueued>>
  /\ UNCHANGED <<priceVars, webVars>>

\* what getGeminiResponse makes of the HTTP outcome: a reply text that is
\* falsy (empty) or no reply at all throws
modelReplyOk(outcome) == outcome.ok /\ outcome.text # <<>>

\* the time processQueue records after a call: only a call that succeeded
\* is recorded
recordRequestTime(ok, last, t) == IF ok THEN t ELSE last

\* the model call of drain d returns: the job's promise is settled and the
\* while loop goes round
ModelReturns(d, outcome) ==
  /\ ~MicrotaskPending
  /\ d \in 1..Len(drains)
  /\ drains[d].pc = "gemini"
  /\ LET c == drains[d].caller
         ok == modelReplyOk(outcome)
         last == recordRequestTime(ok, lastRequestTime, now)
         lh == loopHead(requestQueue, last, now)
     IN /\ calls' = [calls EXCEPT ![c].ai =
                       IF ok
                       THEN [state |-> "resolved",
                             response |-> parseGeminiResponse(trim(outcome.text),
                                            calls[c].intent, calls[c].goldPrice)]
                       ELSE [state |-> "rejected"]]
        /\ settled' = settled \cup {c}
        /\ lastRequestTime' = last
        /\ requestQueue' = lh.queue
        /\ processing' = lh.processing
        /\ drains' = SubSeq(drains, 1, d - 1) \o lh.drain
                       \o SubSeq(drains, d + 1, Len(drains))
        /\ dispatched' = dispatched \o lh.calls
  /\ UNCHANGED <<now, ticks, geminiApiKey, responseCache, started, returned, enqueued>>
  /\ UNCHANGED <<priceVars, webVars>>

\* call c resumes after await getThrottledAIResponse(...)
AIResponseKnown(c) ==
  /\ c \in DOMAIN calls
  /\ calls[c].pc = "awaitAI"
  /\ calls[c].ai.state # "pending"
  /\ CallStep(c, IF calls[c].ai.state = "resolved"
                 THEN Finish(calls[c], responseCache, calls[c].ai.response, now, "ai")
                 ELSE Finish(calls[c], responseCache,
                             getFallbackResponse(calls[c].intent, calls[c].goldPrice),
                             now, "aifail"))
  /\ UNCHANGED <<now, ticks, geminiApiKey, requestQueue, processing,
                 lastRequestTime, drains, started, settled, enqueued, dispatched>>
  /\ UNCHANGED <<priceVars, webVars>>

\* the clock advances by d ms
Tick(d) ==
  /\ ~MicrotaskPending
  /\ now' = now + d
  /\ ticks' = ticks + 1
  /\ UNCHANGED <<geminiApiKey, chatVars, webVars, priceVars>>

\* ------------------------------------------------------------------------
\* Price estimator: parsing a price out of a model reply
\* ------------------------------------------------------------------------

cacheDuration == 180000

basePrice == 6800

aiFetchInterval == 600000

\* a regular expression that did not match
NoMatch == 0 - 1

\* the least element of a non-empty set of numbers
Least(S) == CHOOSE i \in S : \A j \in S : i <= j

\* \b before text[i], a word character
BoundaryBefore(text, i) == i = 1 \/ ~IsWordChar(text[i - 1])

\* \b after text[j], a word character
BoundaryAfter(text, j) == j = Len(text) \/ ~IsWordChar(text[j + 1])

\* how many digits stand at position i and after it
DigitRun(text, i) == DigitsEnd(text, i) - i + 1

\* a price that accepts whatever number the reply holds
isValidGoldPriceAny(price) == price >= 0

\* isValidGoldPrice(price)
isValidGoldPrice(price) == price >= 5500 /\ price <= 8000

\* parseInt(text.match(/\b(\d{4,5})\b/)[1]): the leftmost run of exactly four
\* or five digits that stands between word boundaries
standaloneNumber(text) ==
  LET fits(i, n) == /\ DigitRun(text, i) >= n
                    /\ BoundaryBefore(text, i)
                    /\ BoundaryAfter(text, i + n - 1)
      hits == {i \in 1..Len(text) : fits(i, 5) \/ fits(i, 4)}
  IN IF hits = {} THEN NoMatch
     ELSE LET i == Least(hits)
              n == IF fits(i, 5) THEN 5 ELSE 4
          IN DigitsValue(text, i, i + n - 1)

\* parseInt(text.match(/W\s*(\d{4,5})/i)[1]) for a case-insensitive pattern
\* whose literal part W is one of words (in lower case)
prefixNumber(text, words) ==
  LET low == toLowerCase(text)
      digitsAt(i, w) == SkipWS(low, i + Len(w))
      fits(i, w) == MatchAt(low, w, i) /\ DigitRun(low, digitsAt(i, w)) >= 4
      hits == {i \in 1..Len(low) : \E w \in words : fits(i, w)}
  IN IF hits = {} THEN NoMatch
     ELSE LET i == Least(hits)
              d == digitsAt(i, CHOOSE w \in words : fits(i, w))
              n == IF DigitRun(low, d) >= 5 THEN 5 ELSE 4
          IN DigitsValue(low, d, d + n - 1)

\* parseInt(text.match(/(\d{4,5})\s*W/i)[1]) for a case-insensitive literal W
suffixNumber(text, word) ==
  LET low == toLowerCase(text)
      fits(i, n) == /\ DigitRun(low, i) >= n
                    /\ MatchAt(low, word, SkipWS(low, i + n))
      hits == {i \in 1..Len(low) : fits(i, 5) \/ fits(i, 4)}
  IN IF hits = {} THEN NoMatch
     ELSE LET i == Least(hits)
              n == IF fits(i, 5) THEN 5 ELSE 4
          IN DigitsValue(low, i, i + n - 1)

\* parseInt(text.match(/\b(\d{1,2},\d{3})\b/)[1].replace(',', ''))
commaNumber(text) ==
  LET fits(i, n) == /\ i + n + 3 <= Len(text)
                    /\ \A k \in i..(i + n - 1) : IsDigit(text[k])
                    /\ text[i + n] = ","
                    /\ \A k \in (i + n + 1)..(i + n + 3) : IsDigit(text[k])
                    /\ BoundaryBefore(text, i)
                    /\ BoundaryAfter(text, i + n + 3)
      hits == {i \in 1..Len(text) : fits(i, 2) \/ fits(i, 1)}
  IN IF hits = {} THEN NoMatch
     ELSE LET i == Least(hits)
              n == IF fits(i, 2) THEN 2 ELSE 1
          IN DigitsValue(text, i, i + n - 1) * 1000
               + DigitsValue(text, i + n + 1, i + n + 3)

\* text.match(/\d{4,5}/g) from position i on: the numbers matched, in order
RECURSIVE allNumbers(_, _)
allNumbers(text, i) ==
  IF i > Len(text) THEN <<>>
  ELSE IF DigitRun(text, i) >= 4
    THEN LET n == IF DigitRun(text, i) >= 5 THEN 5 ELSE 4
         IN <<DigitsValue(text, i, i + n - 1)>> \o allNumbers(text, i + n)
  ELSE allNumbers(text, i + 1)

RupeeSign == <<"RUPEE">>

\* the six matches of strategy 2, in the order the code tries them
currencyMatches(text) ==
  <<prefixNumber(text, {RupeeSign}),
    prefixNumber(text, {<<"r","s">>, <<"r","s",".">>}),
    prefixNumber(text, {<<"i","n","r">>}),
    prefixNumber(text, {<<"r","u","p","e","e">>, <<"r","u","p","e","e","s">>}),
    suffixNumber(text, <<"r","u","p","e","e">>),
    suffixNumber(text, <<"i","n","r">>)>>

\* parseGoldPriceFromText(text): the price, 0 for null
parseGoldPriceFromText(text) ==
  LET valid(n) == n # NoMatch /\ isValidGoldPrice(n)
      RECURSIVE firstValid(_, _)
      firstValid(ns, k) == IF k > Len(ns) THEN 0
                           ELSE IF valid(ns[k]) THEN ns[k]
                           ELSE firstValid(ns, k + 1)
      numberMatch == standaloneNumber(text)
      currency == firstValid(currencyMatches(text), 1)
      commaMatch == commaNumber(text)
  IN IF valid(numberMatch) THEN numberMatch
     ELSE IF currency # 0 THEN currency
     ELSE IF valid(commaMatch) THEN commaMatch
     ELSE firstValid(allNumbers(text, 1), 1)

\* ------------------------------------------------------------------------
\* Price estimator: synthesized price
\* ------------------------------------------------------------------------

\* Math.sin(h / 24 * 2 pi) * 50 for h = 0..6, in hundredths
SineTable == <<0, 1294, 2500, 3536, 4330, 4830, 5000>>

\* timeVariation of generateRealisticPrice at hour h, in hundredths
timeVariation(h) ==
  LET q == h % 12
      v == IF q <= 6 THEN SineTable[q + 1] ELSE SineTable[12 - q + 1]
  IN IF h < 12 THEN v ELSE 0 - v

\* generateRealisticPrice() at hour hourOfDay when Math.random() gives
\* random / 10000
generateRealisticPrice(hourOfDay, random) ==
  LET randomVariation == random - 5000
      price == (basePrice * 100 + timeVariation(hourOfDay) + randomVariation + 50) \div 100
      capped == IF price < 7200 THEN price ELSE 7200
  IN IF capped > 6200 THEN capped ELSE 6200

\* ------------------------------------------------------------------------
\* Price estimator: getCurrentPrice, fetchFromAPI, refreshPrice
\* ------------------------------------------------------------------------

\* cache = { price: null, lastUpdated: null }; origin is history: whether
\* the cached price was parsed from a model reply or synthesized
NoPrice == [price |-> 0, lastUpdated |-> 0, origin |-> "none"]

\* before any price call has returned
NoQuote ==
  [id |-> 0, kind |-> "none", price |-> 0, source |-> "none", origin |-> "none",
   timestamp |-> 0, owed |-> {}, model |-> "none"]

\* history: no model call has been made
NoModelCall == [at |-> 0, previous |-> 0, failedBefore |-> 0, failedAt |-> 0]

\* the price service as constructed
PriceIdle ==
  /\ priceCache = NoPrice
  /\ lastAiFetch = 0
  /\ priceCalls = <<>>
  /\ priceStarted = 0
  /\ quote = NoQuote
  /\ promised = {}
  /\ priceDispatched = NoModelCall

\* the test with a cache window that is closed at its end
priceCacheValidInclusive(cache, t) ==
  cache.price # 0 /\ cache.lastUpdated # 0 /\ t - cache.lastUpdated <= cacheDuration

\* the test of getCurrentPrice for a cached price that is still valid
priceCacheValid(cache, t) ==
  cache.price # 0 /\ cache.lastUpdated # 0 /\ t - cache.lastUpdated < cacheDuration

\* the test of fetchFromAPI for asking the model
shouldFetchFromGemini(key, lastFetch, t) ==
  key # "unset" /\ key # "placeholder" /\ t - lastFetch >= aiFetchInterval

\* fetchFromGemini() on the outcome of its HTTP call: the price, 0 when it
\* throws
fetchFromGemini(outcome) ==
  IF outcome.ok /\ outcome.text # <<>>
  THEN parseGoldPriceFromText(trim(outcome.text))
  ELSE 0

\* fetchFromAPI that lets the failure of the model call through
onGeminiErrorRethrown(simulatedPrice) ==
  [ok |-> FALSE, price |-> 0, origin |-> "none"]

\* fetchFromAPI after the model call failed: the catch logs and the
\* simulated price is returned
onGeminiError(simulatedPrice) ==
  [ok |-> TRUE, price |-> simulatedPrice, origin |-> "synth"]

\* what a price call gives its caller, with the history of the call: the
\* prices it owes and how its model call went
Quote(id, call, kind, price, source, origin, timestamp) ==
  [id |-> id, kind |-> kind, price |-> price, source |-> source,
   origin |-> origin, timestamp |-> timestamp, owed |-> call.owed,
   model |-> call.model]

\* history: the prices a call made at time t owes its caller, those of the
\* quotes returned before it, since the last refreshPrice, whose cache
\* window holds t
owedPrices(quotes, t) ==
  {q.price : q \in {p \in quotes : t - p.timestamp < cacheDuration}}

\* history: quote q is added to the quotes returned
PromiseMade(quotes, q) ==
  IF q.kind = "quote"
  THEN quotes \cup {[price |-> q.price, timestamp |-> q.timestamp]}
  ELSE quotes

\* history: a model call is dispatched at time t; previous is the time of
\* the dispatch before it and failedBefore the latest dispatch time of a
\* model call that had failed by then (0 when there is none)
ModelCall(t, earlier) ==
  [at |-> t, previous |-> earlier.at, failedBefore |-> earlier.failedAt,
   failedAt |-> earlier.failedAt]

\* history: the model call dispatched at time t has failed
ModelCallFailed(history, t) ==
  [history EXCEPT !.failedAt = IF t > history.failedAt THEN t ELSE history.failedAt]

\* getCurrentPrice() is entered with the cache as given, the quotes
\* returned so far being earlier: a valid cache is returned at once,
\* otherwise fetchFromAPI runs up to its await, and getCurrentPrice awaits it
EnterGetCurrentPrice(cache, earlier, sample) ==
  LET id == priceStarted + 1
      call == [pc |-> "awaitGemini", now |-> now, owed |-> owedPrices(earlier, now),
               fetched |-> [ok |-> FALSE, price |-> 0, origin |-> "none"],
               model |-> "none"]
      skipped == [call EXCEPT
                    !.pc = "awaitFetch",
                    !.fetched = [ok |-> TRUE,
                                 price |-> generateRealisticPrice(sample.hour, sample.random),
                                 origin |-> "synth"]]
      hit == Quote(id, call, "quote", cache.price, "cache", cache.origin,
                   cache.lastUpdated)
  IN /\ priceStarted' = id
     /\ priceDispatched' =
          IF ~priceCacheValid(cache, now)
             /\ shouldFetchFromGemini(geminiApiKey, lastAiFetch, now)
          THEN ModelCall(now, priceDispatched)
          ELSE priceDispatched
     /\ IF priceCacheValid(cache, now)
        THEN /\ quote' = hit
             /\ promised' = PromiseMade(earlier, hit)
             /\ UNCHANGED priceCalls
        ELSE /\ priceCalls' = [i \in DOMAIN priceCalls \cup {id} |->
                                IF i # id THEN priceCalls[i]
                                ELSE IF shouldFetchFromGemini(geminiApiKey, lastAiFetch, now)
                                  THEN call ELSE skipped]
             /\ promised' = earlier
             /\ UNCHANGED quote

\* getCurrentPrice() is called
GetCurrentPrice(sample) ==
  /\ ~MicrotaskPending
  /\ EnterGetCurrentPrice(priceCache, promised, sample)
  /\ UNCHANGED <<now, ticks, geminiApiKey, chatVars, webVars, priceCache, lastAiFetch>>

\* refreshPrice() that also opens the model throttle
RefreshPriceResetsThrottle(sample) ==
  /\ ~MicrotaskPending
  /\ priceCache' = NoPrice
  /\ lastAiFetch' = 0
  /\ EnterGetCurrentPrice(NoPrice, {}, sample)
  /\ UNCHANGED <<now, ticks, geminiApiKey, chatVars, webVars>>

\* refreshPrice() is called
RefreshPrice(sample) ==
  /\ ~MicrotaskPending
  /\ priceCache' = NoPrice
  /\ EnterGetCurrentPrice(NoPrice, {}, sample)
  /\ UNCHANGED <<now, ticks, geminiApiKey, chatVars, webVars, lastAiFetch>>

\* the model call of price call c settles and fetchFromAPI returns: the
\* parsed price, or after a failure the price simulated at some hour with
\* some value of Math.random()
GeminiPriceReturns(c, outcome, samples) ==
  /\ ~MicrotaskPending
  /\ c \in DOMAIN priceCalls
  /\ priceCalls[c].pc = "awaitGemini"
  /\ LET aiPrice == fetchFromGemini(outcome)
     IN IF aiPrice # 0
        THEN /\ lastAiFetch' = priceCalls[c].now
             /\ UNCHANGED priceDispatched
             /\ priceCalls' = [priceCalls EXCEPT
                  ![c].pc = "awaitFetch",
                  ![c].model = "ok",
                  ![c].fetched = [ok |-> TRUE, price |-> aiPrice, origin |-> "model"]]
        ELSE /\ UNCHANGED lastAiFetch
             /\ priceDispatched' = ModelCallFailed(priceDispatched, priceCalls[c].now)
             /\ \E sample \in samples :
                  priceCalls' = [priceCalls EXCEPT
                    ![c].pc = "awaitFetch",
                    ![c].model = IF outcome.ok THEN "invalid" ELSE "failed",
                    ![c].fetched = onGeminiError(
                       generateRealisticPrice(sample.hour, sample.random))]
  /\ UNCHANGED <<now, ticks, geminiApiKey, chatVars, webVars, priceCache, priceStarted,
                 quote, promised>>

\* price call c resumes after await fetchFromAPI(): the cache is written
\* and the quote returned; a rejection goes to the catch
PriceReturns(c) ==
  /\ c \in DOMAIN priceCalls
  /\ priceCalls[c].pc = "awaitFetch"
  /\ LET call == priceCalls[c]
         q == IF call.fetched.ok
              THEN Quote(c, call, "quote", call.fetched.price, "api",
                         call.fetched.origin, call.now)
              ELSE IF priceCache.price # 0 /\ priceCache.lastUpdated # 0
                THEN Quote(c, call, "quote", priceCache.price, "cache_fallback",
                           priceCache.origin, priceCache.lastUpdated)
              ELSE Quote(c, call, "threw", 0, "none", "none", 0)
     IN /\ priceCache' = IF call.fetched.ok
                         THEN [price |-> call.fetched.price, lastUpdated |-> call.now,
                               origin |-> call.fetched.origin]
                         ELSE priceCache
        /\ quote' = q
        /\ promised' = PromiseMade(promised, q)
  /\ priceCalls' = [i \in DOMAIN priceCalls \ {c} |-> priceCalls[i]]
  /\ UNCHANGED <<now, ticks, geminiApiKey, chatVars, webVars, lastAiFetch, priceStarted,
                 priceDispatched>>

\* ------------------------------------------------------------------------
\* Price estimator: getPriceHistory, generatePriceHistory
\* ------------------------------------------------------------------------

\* Math.sin((i / 24) * Math.PI) * 150 for i = 0..23, in hundredths
Trend24 ==
  <<0, 1958, 3882, 5740, 7500, 9131, 10607, 11900, 12990, 13858, 14489,
    14872, 15000, 14872, 14489, 13858, 12990, 11900, 10607, 9131, 7500,
    5740, 3882, 1958>>

\* Math.sin((i / 7) * Math.PI) * 150 for i = 0..6, in hundredths
Trend7 ==
  <<0, 6508, 11727, 14624, 14624, 11727, 6508>>

\* Math.sin((i / 30) * Math.PI) * 150 for i = 0..29, in hundredths
Trend30 ==
  <<0, 1568, 3119, 4635, 6101, 7500, 8817, 10037, 11147, 12135, 12990,
    13703, 14266, 14672, 14918, 15000, 14918, 14672, 14266, 13703, 12990,
    12135, 11147, 10037, 8817, 7500, 6101, 4635, 3119, 1568>>

\* trendVariation of point i of dataPoints, in hundredths
trendVariation(i, dataPoints) ==
  CASE dataPoints = 24 -> Trend24[i + 1]
    [] dataPoints = 7 -> Trend7[i + 1]
    [] dataPoints = 30 -> Trend30[i + 1]

\* the switch of generatePriceHistory; times are in seconds, span is
\* now.getTime() - startTime
historyPlan(period) ==
  CASE period = "1d" -> [dataPoints |-> 24, timeInterval |-> 3600, span |-> 86400]
    [] period = "1w" -> [dataPoints |-> 7, timeInterval |-> 86400, span |-> 604800]
    [] period = "1m" -> [dataPoints |-> 30, timeInterval |-> 86400, span |-> 2592000]
    [] OTHER -> [dataPoints |-> 24, timeInterval |-> 3600, span |-> 86400]

\* generatePriceHistory(currentPrice, period) when the two Math.random()
\* calls for point k give randoms[k].price / 10000 and
\* randoms[k].volume / 10000.  The timestamp of a point is held as ago, the
\* seconds it lies before `now` (the Date taken at line 259): the
\* millisecond values of a month do not fit the integers of the checker,
\* and toISOString is one-to-one on them.
generatePriceHistory(currentPrice, period, randoms) ==
  LET plan == historyPlan(period)
  IN [k \in 1..plan.dataPoints |->
        LET i == k - 1
            variation == 2 * randoms[k].price - 10000
            price == (currentPrice * 100 + variation
                      + trendVariation(i, plan.dataPoints) + 50) \div 100
            capped == IF price < 7500 THEN price ELSE 7500
        IN [ago |-> plan.span - i * plan.timeInterval,
            price |-> IF capped > 6000 THEN capped ELSE 6000,
            volume |-> (randoms[k].volume * 1000) \div 10000 + 100]]

\* history: getPriceHistory has not been called
NoHistory == [id |-> 0, period |-> "none", at |-> 0, data |-> <<>>]

HistoryIdle == priceHistory = NoHistory

\* getPriceHistory(period) that keeps the price it synthesized in the cache
GetPriceHistoryCaches(period, sample, randoms) ==
  /\ ~MicrotaskPending
  /\ LET currentPrice == IF priceCache.price # 0 THEN priceCache.price
                         ELSE generateRealisticPrice(sample.hour, sample.random)
     IN /\ priceHistory' = [id |-> priceHistory.id + 1, period |-> period, at |-> now,
                            data |-> generatePriceHistory(currentPrice, period, randoms)]
        /\ priceCache' = IF priceCache.price # 0 THEN priceCache
                         ELSE [price |-> currentPrice, lastUpdated |-> now,
                               origin |-> "synth"]
  /\ UNCHANGED <<now, ticks, geminiApiKey, chatVars, lastAiFetch, priceCalls,
                 priceStarted, quote, promised, priceDispatched, routeVars, orderVars,
                 otherVars>>

\* getPriceHistory(period) is called: the cached price, or a synthesized
\* one when the cache holds none, is the price the history is built around
GetPriceHistory(period, sample, randoms) ==
  /\ ~MicrotaskPending
  /\ LET currentPrice == IF priceCache.price # 0 THEN priceCache.price
                         ELSE generateRealisticPrice(sample.hour, sample.random)
     IN priceHistory' = [id |-> priceHistory.id + 1, period |-> period, at |-> now,
                         data |-> generatePriceHistory(currentPrice, period, randoms)]
  /\ UNCHANGED besideHistory

\* ------------------------------------------------------------------------
\* POST /api/chat (routes/chat.js)
\* ------------------------------------------------------------------------

\* an object with the properties message and reply (JsUndefined when absent)
AiObject(message, reply) == [t |-> "object", message |-> message, reply |-> reply]

\* aiResponse?.message and aiResponse?.reply
OptionalMessage(v) == IF v.t = "object" THEN v.message ELSE JsUndefined

OptionalReply(v) == IF v.t = "object" THEN v.reply ELSE JsUndefined

\* a || b
OrElse(a, b) == IF Truthy(a) THEN a ELSE b

\* the message the route substitutes for an invalid aiResponse message
ApologyMessage ==
  <<"I"," ","a","p","o","l","o","g","i","z","e"," ","f","o","r"," ","t","h",
    "e"," ","t","e","c","h","n","i","c","a","l"," ","d","i","f","f","i","c",
    "u","l","t","y","."," ","H","o","w"," ","c","a","n"," ","I"," ","h","e",
    "l","p"," ","y","o","u"," ","w","i","t","h"," ","g","o","l","d"," ","i",
    "n","v","e","s","t","m","e","n","t"," ","t","o","d","a","y","?">>

\* fallbackMessage of the route's catch block
RouteFallbackMessage ==
  <<"I"," ","a","p","o","l","o","g","i","z","e"," ","f","o","r"," ","t","h",
    "e"," ","t","e","c","h","n","i","c","a","l"," ","d","i","f","f","i","c",
    "u","l","t","y","."," ","G","o","l","d"," ","i","s"," ","c","u","r","r",
    "e","n","t","l","y"," ","a"," ","s","t","a","b","l","e"," ","i","n","v",
    "e","s","t","m","e","n","t"," ","o","p","t","i","o","n","."," ","H","o",
    "w"," ","c","a","n"," ","I"," ","h","e","l","p"," ","y","o","u"," ","t",
    "o","d","a","y","?">>

\* message of the 500 body
ServerErrorMessage ==
  <<"I"," ","a","p","o","l","o","g","i","z","e",","," ","b","u","t"," ","I",
    "'","m"," ","h","a","v","i","n","g"," ","t","e","c","h","n","i","c","a",
    "l"," ","d","i","f","f","i","c","u","l","t","i","e","s","."," ","P","l",
    "e","a","s","e"," ","t","r","y"," ","a","g","a","i","n"," ","i","n"," ",
    "a"," ","m","o","m","e","n","t",".">>

\* the route's test `!message || message.trim().length === 0`
messageRejected(message) ==
  ~Truthy(message) \/ (message.t = "string" /\ trim(message.s) = <<>>)

\* message.trim is not a function: the test itself throws
messageThrows(message) == Truthy(message) /\ message.t # "string"

\* responseMessage without the check for a blank string
responseMessageUnchecked(aiResponse) ==
  LET picked == OrElse(OrElse(OptionalMessage(aiResponse), OptionalReply(aiResponse)),
                       JsNull)
  IN IF picked.t # "string" THEN trim(ApologyMessage) ELSE trim(picked.s)

\* responseMessage as lines 40-49 compute it from aiResponse
responseMessageOf(aiResponse) ==
  LET picked == OrElse(OrElse(OptionalMessage(aiResponse), OptionalReply(aiResponse)),
                       JsNull)
  IN IF ~Truthy(picked) \/ picked.t # "string" \/ trim(picked.s) = <<>>
     THEN trim(ApologyMessage)
     ELSE trim(picked.s)

\* the body of res.json(response)
ChatBody(content) ==
  [error |-> "none", message |-> [t |-> "object", content |-> JsString(content)]]

\* the body the catch block sends
FallbackBody ==
  [error |-> "AI_FALLBACK",
   message |-> [t |-> "object", content |-> JsString(RouteFallbackMessage)]]

Response(status, body) == [status |-> status, body |-> body]

\* the 400 response to a missing or blank message
MessageRequired ==
  Response(400, [error |-> "Message is required", message |-> JsUndefined])

\* the catch block: the fallback body, or the 500 body when sending the
\* fallback throws
onRouteError(sendFails) ==
  IF sendFails
  THEN Response(500, [error |-> "Failed to process message",
                      message |-> JsString(ServerErrorMessage)])
  ELSE Response(200, FallbackBody)

\* lines 81-104: aiResponse.suggestions throws on null and undefined
respond(aiResponse, responseMessage, sendFails) ==
  IF aiResponse.t \in {"null", "undefined"}
  THEN onRouteError(sendFails)
  ELSE Response(200, ChatBody(responseMessage))

NoAnswer == [id |-> 0, request |-> JsUndefined, status |-> 0,
             body |-> [error |-> "none", message |-> JsUndefined]]

\* no request has arrived
RouteIdle ==
  /\ requests = <<>>
  /\ posted = 0
  /\ answer = NoAnswer
  /\ answered = {}

\* handler r sends its response and ends
Send(r, message, response) ==
  /\ answer' = [id |-> r, request |-> message,
                status |-> response.status, body |-> response.body]
  /\ answered' = answered \cup {r}
  /\ requests' = [i \in DOMAIN requests \ {r} |-> requests[i]]

\* handler r goes on to its next await
Await(r, pc) ==
  /\ requests' = [requests EXCEPT ![r].pc = pc]
  /\ UNCHANGED <<answer, answered>>

\* a POST /api/chat request arrives: lines 13-24
PostChat(message, sendFails) ==
  /\ posted' = posted + 1
  /\ IF messageRejected(message) THEN
       /\ answer' = [id |-> posted + 1, request |-> message,
                     status |-> MessageRequired.status, body |-> MessageRequired.body]
       /\ answered' = answered \cup {posted + 1}
       /\ UNCHANGED requests
     ELSE IF messageThrows(message) THEN
       /\ answer' = [id |-> posted + 1, request |-> message,
                     status |-> onRouteError(sendFails).status,
                     body |-> onRouteError(sendFails).body]
       /\ answered' = answered \cup {posted + 1}
       /\ UNCHANGED requests
     ELSE
       /\ requests' = [i \in DOMAIN requests \cup {posted + 1} |->
                         IF i = posted + 1
                         THEN [pc |-> "session", message |-> message,
                               aiResponse |-> JsUndefined, responseMessage |-> <<>>]
                         ELSE requests[i]]
       /\ UNCHANGED <<answer, answered>>
  /\ UNCHANGED besideRoute

\* await Chat.getOrCreateSession(sessionId, userId) settles: line 24
SessionReady(r, ok, sendFails) ==
  /\ r \in DOMAIN requests
  /\ requests[r].pc = "session"
  /\ IF ok THEN Await(r, "addUser")
     ELSE Send(r, requests[r].message, onRouteError(sendFails))
  /\ UNCHANGED <<besideRoute, posted>>

\* await chat.addMessage('user', message.trim()) settles: line 27
UserMessageSaved(r, ok, sendFails) ==
  /\ r \in DOMAIN requests
  /\ requests[r].pc = "addUser"
  /\ IF ok THEN Await(r, "price")
     ELSE Send(r, requests[r].message, onRouteError(sendFails))
  /\ UNCHANGED <<besideRoute, posted>>

\* await goldPriceService.getCurrentPrice() settles: lines 30-34
PriceKnown(r, ok, sendFails) ==
  /\ r \in DOMAIN requests
  /\ requests[r].pc = "price"
  /\ IF ok THEN Await(r, "process")
     ELSE Send(r, requests[r].message, onRouteError(sendFails))
  /\ UNCHANGED <<besideRoute, posted>>

\* await chatbotService.processMessage(message, context) settles: lines 37-55
MessageProcessed(r, ok, aiResponse, sendFails) ==
  /\ r \in DOMAIN requests
  /\ requests[r].pc = "process"
  /\ IF ok
     THEN /\ requests' = [requests EXCEPT
                            ![r].pc = "save",
                            ![r].aiResponse = aiResponse,
                            ![r].responseMessage = responseMessageOf(aiResponse)]
          /\ UNCHANGED <<answer, answered>>
     ELSE Send(r, requests[r].message, onRouteError(sendFails))
  /\ UNCHANGED <<besideRoute, posted>>

\* await chat.addMessage('assistant', responseMessage, ...) settles:
\* lines 55-66 and, when it was saved, lines 81-104
AssistantSaved(r, ok, sendFails) ==
  /\ r \in DOMAIN requests
  /\ requests[r].pc = "save"
  /\ IF ok
     THEN Send(r, requests[r].message,
               respond(requests[r].aiResponse, requests[r].responseMessage, sendFails))
     ELSE Await(r, "resave")
  /\ UNCHANGED <<besideRoute, posted>>

\* the addMessage of the saveError handler settles: lines 68-104
FallbackSaved(r, ok, sendFails) ==
  /\ r \in DOMAIN requests
  /\ requests[r].pc = "resave"
  /\ Send(r, requests[r].message,
          IF ok
          THEN respond(requests[r].aiResponse, requests[r].responseMessage, sendFails)
          ELSE onRouteError(sendFails))
  /\ UNCHANGED <<besideRoute, posted>>

\* ------------------------------------------------------------------------
\* Rate limiting (server/index.js): createRateLimit and its three mounts
\* ------------------------------------------------------------------------

\* windowMs of the three limiters
windowMs == 900000

\* max of the limiter mounted at each path
limitMax(limiter) ==
  CASE limiter = "/api/auth" -> 10
    [] limiter = "/api/chat" -> 50
    [] limiter = "/api" -> 100

\* the limiters a request to a path passes, in the order they are mounted
limitersOf(path) ==
  CASE path = "/api/auth" -> <<"/api/auth", "/api">>
    [] path = "/api/chat" -> <<"/api/chat", "/api">>
    [] OTHER -> <<"/api">>

\* header.split(',')[0]
firstEntry(header) ==
  LET comma == indexOfFrom(header, <<",">>, 1)
  IN IF comma = 0 THEN header ELSE Slice(header, 1, comma - 1)

\* keyGenerator(req): forwardedFor is the X-Forwarded-For header, absent
\* when the request has none; ip is req.ip
keyGenerator(req) ==
  IF req.forwardedFor.present /\ trim(firstEntry(req.forwardedFor.value)) # <<>>
  THEN trim(firstEntry(req.forwardedFor.value))
  ELSE req.ip

\* the hits a limiter has counted for a key in the current window
hitsOf(store, limiter, key) ==
  IF <<limiter, key>> \in DOMAIN store THEN store[<<limiter, key>>] ELSE 0

\* a limiter counts a request of the key
countHit(store, limiter, key) ==
  [k \in DOMAIN store \cup {<<limiter, key>>} |->
     IF k = <<limiter, key>> THEN hitsOf(store, limiter, key) + 1 ELSE store[k]]

\* no request has arrived in the current window
LimitIdle ==
  /\ limitStore = <<>>
  /\ reached = [path \in {} |-> 0]
  /\ limited = [id |-> 0, path |-> "none", code |-> 0]

\* A request of the client at address ip to the path passes the limiters
\* mounted for it, each counting it under its key: the first that has
\* counted more than its max answers 429, otherwise the request reaches the
\* route handler.  reached counts, per path, the client's requests that
\* reached the handlers in the current window.
LimitedRequest(path, req) ==
  LET key == keyGenerator(req)
      first == limitersOf(path)[1]
      afterFirst == countHit(limitStore, first, key)
      stopsFirst == afterFirst[<<first, key>>] > limitMax(first)
      second == limitersOf(path)[Len(limitersOf(path))]
      afterSecond == IF Len(limitersOf(path)) = 1 \/ stopsFirst THEN afterFirst
                     ELSE countHit(afterFirst, second, key)
      passes == ~stopsFirst /\ afterSecond[<<second, key>>] <= limitMax(second)
  IN /\ limitStore' = afterSecond
     /\ reached' = IF passes
                   THEN [p \in DOMAIN reached \cup {path} |->
                           IF p = path
                           THEN (IF path \in DOMAIN reached THEN reached[path] ELSE 0) + 1
                           ELSE reached[p]]
                   ELSE reached
     /\ limited' = [id |-> limited.id + 1, path |-> path,
                    code |-> IF passes THEN 200 ELSE 429]
     /\ UNCHANGED besideLimit

\* a whole window passes without a request: every limiter forgets its hits
WindowEnds ==
  /\ ~MicrotaskPending
  /\ now' = now + windowMs
  /\ ticks' = ticks + 1
  /\ limitStore' = <<>>
  /\ reached' = [path \in {} |-> 0]
  /\ UNCHANGED <<limited, geminiApiKey, chatVars, priceVars, routeVars, historyVars,
                 orderVars, sessionVars, accountVars>>

\* ------------------------------------------------------------------------
\* Chat sessions (models/Chat.js, routes/chat.js): who changes a session
\* ------------------------------------------------------------------------

\* history: before any request for a session
NoSessionChange ==
  [id |-> 0, kind |-> "none", by |-> 0, session |-> 0, owner |-> 0, changed |-> FALSE]

\* no chat document exists
SessionIdle ==
  /\ chats = <<>>
  /\ sessionChange = NoSessionChange

\* no stored token: localStorage.getItem('auth_token') is null
NoToken == [userId |-> 0, exp |-> 0, secret |-> "none"]

\* no user document, no request, a browser without a token
AccountIdle ==
  /\ users = <<>>
  /\ signupAnswer = [id |-> 0, status |-> 0, body |-> <<>>, created |-> FALSE]
  /\ client = [token |-> NoToken, user |-> 0]
  /\ authAnswer = [id |-> 0, status |-> 0, error |-> "none"]

OtherIdle == LimitIdle /\ SessionIdle /\ AccountIdle

\* Chat.findOne(query): the position of the first active document with the
\* session id, and with the user id when the query names one (userId 0 is
\* null, a query without userId has anyUser); 0 when there is none
findActiveChat(sessionId, anyUser, userId) ==
  LET found == {n \in 1..Len(chats) :
                  /\ chats[n].sessionId = sessionId
                  /\ chats[n].isActive
                  /\ anyUser \/ chats[n].userId = userId}
  IN IF found = {} THEN 0 ELSE CHOOSE n \in found : \A m \in found : n <= m

\* Chat.getOrCreateSession(sessionId, userId): the documents after it and
\* the position of the session's document; a new document holds the
\* welcome message
getOrCreateSession(sessionId, userId) ==
  LET n == findActiveChat(sessionId, TRUE, 0)
  IN IF n # 0 THEN [chats |-> chats, at |-> n]
     ELSE [chats |-> Append(chats, [sessionId |-> sessionId, userId |-> userId,
                                    isActive |-> TRUE, messages |-> 1,
                                    feedbackBy |-> <<>>]),
           at |-> Len(chats) + 1]

\* history: request kind of user by (0 without a valid token) for the
\* session found its document at position n, or none (n = 0)
SessionChanged(kind, by, sessionId, docs, n, changed) ==
  [id |-> sessionChange.id + 1, kind |-> kind, by |-> by, session |-> sessionId,
   owner |-> IF n = 0 THEN 0 ELSE docs[n].userId, changed |-> changed]

\* POST /api/chat with a message and a sessionId by user userId (0 without a
\* valid token): the session is fetched or created, and the user's message
\* and the assistant's reply are added to it
SessionPost(userId, sessionId) ==
  LET got == getOrCreateSession(sessionId, userId)
  IN /\ chats' = [got.chats EXCEPT ![got.at].messages = got.chats[got.at].messages + 2]
     /\ sessionChange' = SessionChanged("post", userId, sessionId, got.chats, got.at, TRUE)
     /\ UNCHANGED besideSessions

\* DELETE /api/chat/:sessionId by user userId: the query names the user
\* only when the request has one
SessionDelete(userId, sessionId) ==
  LET n == findActiveChat(sessionId, userId = 0, userId)
  IN /\ chats' = IF n = 0 THEN chats ELSE [chats EXCEPT ![n].isActive = FALSE]
     /\ sessionChange' = SessionChanged("delete", userId, sessionId, chats, n, n # 0)
     /\ UNCHANGED besideSessions

\* POST /api/chat/:sessionId/feedback by user userId on message messageId
SessionFeedback(userId, sessionId, messageId) ==
  LET n == findActiveChat(sessionId, TRUE, 0)
      found == n # 0 /\ messageId <= chats[n].messages
  IN /\ chats' = IF found
                 THEN [chats EXCEPT ![n].feedbackBy = <<[message |-> messageId,
                                                         userId |-> userId]>>]
                 ELSE chats
     /\ sessionChange' = SessionChanged("feedback", userId, sessionId, chats, n, found)
     /\ UNCHANGED besideSessions

\* ------------------------------------------------------------------------
\* Accounts (validation/schemas.js, middleware/errorHandler.js,
\* middleware/auth.js, routes/auth.js) and the browser's AuthProvider
\* ------------------------------------------------------------------------

\* name: z.string().min(2).max(50).regex(/^[a-zA-Z\s]+$/)
signupName(name) ==
  /\ Len(name) >= 2
  /\ Len(name) <= 50
  /\ \A i \in 1..Len(name) : IsLetter(name[i]) \/ IsWS(name[i])

\* email: z.string().email().max(255), for addresses written local@domain:
\* one @ with text before it and a dot inside what follows
signupEmail(email) ==
  /\ Len(email) <= 255
  /\ \E at \in 2..Len(email) :
       /\ email[at] = "@"
       /\ \A i \in 1..Len(email) : email[i] = "@" => i = at
       /\ \E dot \in (at + 2)..(Len(email) - 1) : email[dot] = "."

\* password: z.string().min(6).max(128).regex(/^(?=.*[a-z])(?=.*[A-Z])(?=.*\d)/)
signupPassword(password) ==
  /\ Len(password) >= 6
  /\ Len(password) <= 128
  /\ \E i \in 1..Len(password) : \E k \in 1..26 : password[i] = LowerCase[k]
  /\ \E i \in 1..Len(password) : \E k \in 1..26 : password[i] = UpperCase[k]
  /\ \E i \in 1..Len(password) : IsDigit(password[i])

\* whether a ZodType accepts the value: the object with the four signup
\* fields, refined by data.password === data.confirmPassword
zodParses(type, value) ==
  /\ type = "signup body"
  /\ signupName(value.name)
  /\ signupEmail(value.email)
  /\ signupPassword(value.password)
  /\ value.password = value.confirmPassword

\* authSchemas.signup, by its own properties: z.object({ body: ... }) is a
\* ZodObject, which keeps the fields it was given under shape
authSchemasSignup == [shape |-> [body |-> "signup body"]]

\* validateRequest(schema)(req, res, next): whether next() is called
\* without an error.  Each of schema.body, schema.query, schema.params is
\* parsed against only when the schema object has that property.
validateRequest(schema, req) ==
  /\ "body" \in DOMAIN schema => zodParses(schema.body, req.body)
  /\ "query" \in DOMAIN schema => zodParses(schema.query, req.query)
  /\ "params" \in DOMAIN schema => zodParses(schema.params, req.params)

\* User.findOne({ email }): 0 when there is none
findUserByEmail(email) ==
  LET found == {n \in 1..Len(users) : users[n].email = email}
  IN IF found = {} THEN 0 ELSE CHOOSE n \in found : TRUE

\* user.save() validates the document: email, passwordHash and name are
\* required, name and email are trimmed
userValidates(body) ==
  /\ trim(body.name) # <<>>
  /\ trim(body.email) # <<>>
  /\ body.password # <<>>

\* process.env.JWT_EXPIRES_IN in ms
JwtExpiresIn == 3600000

\* generateToken(userId): jwt.sign({ userId }, JWT_SECRET, { expiresIn })
generateToken(userId) ==
  [userId |-> userId, exp |-> now + JwtExpiresIn, secret |-> "JWT_SECRET"]

\* jwt.verify(token, process.env.JWT_SECRET) returns the payload
jwtVerifies(token) == token.secret = "JWT_SECRET" /\ now < token.exp

\* POST /api/auth/signup: the response and the users collection after it
signup(req) ==
  IF ~validateRequest(authSchemasSignup, req)
  THEN [status |-> 400, users |-> users, token |-> NoToken]
  ELSE IF findUserByEmail(req.body.email) # 0
  THEN [status |-> 400, users |-> users, token |-> NoToken]
  ELSE IF ~userValidates(req.body)
  THEN [status |-> 400, users |-> users, token |-> NoToken]
  ELSE [status |-> 201,
        users |-> Append(users, [name |-> trim(req.body.name),
                                 email |-> toLowerCase(trim(req.body.email))]),
        token |-> generateToken(Len(users) + 1)]

\* authenticateToken(req, res, next): token is the second word of the
\* Authorization header, NoToken when the request has none.  Status 200
\* stands for next().
authenticateToken(token) ==
  IF token = NoToken
  THEN [status |-> 401, error |-> "Access token required"]
  ELSE IF ~jwtVerifies(token)
  THEN [status |-> 403, error |-> "Invalid or expired token"]
  ELSE IF token.userId \notin 1..Len(users)
  THEN [status |-> 401, error |-> "Invalid token"]
  ELSE [status |-> 200, error |-> "none"]

\* the response interceptor of AuthProvider, on a response outside 2xx:
\* what the browser holds afterwards
responseInterceptor(stored, status) ==
  IF status = 401 THEN [token |-> NoToken, user |-> 0] ELSE stored

\* AuthProvider.signup(name, email, password, confirmPassword): the request
\* is answered by the signup route; the token and user of a 201 are stored
ClientSignup(body) ==
  LET res == signup([body |-> body, query |-> <<>>, params |-> <<>>])
  IN /\ users' = res.users
     /\ signupAnswer' = [id |-> signupAnswer.id + 1, status |-> res.status,
                         body |-> body, created |-> res.users # users]
     /\ client' = IF res.status = 201
                  THEN [token |-> res.token, user |-> Len(res.users)]
                  ELSE responseInterceptor(client, res.status)
     /\ UNCHANGED <<now, ticks, authAnswer, besideAccounts>>

\* The browser sends a request to a route behind authenticateToken: the
\* request interceptor adds the stored token, the middleware answers, and
\* the response interceptor sees every answer outside 2xx.
ClientRequest ==
  LET res == authenticateToken(client.token)
  IN /\ authAnswer' = [id |-> authAnswer.id + 1, status |-> res.status,
                       error |-> res.error]
     /\ client' = IF res.status = 200 THEN client
                  ELSE responseInterceptor(client, res.status)
     /\ UNCHANGED <<now, ticks, users, signupAnswer, besideAccounts>>

\* the stored token's lifetime passes
TokenExpires ==
  /\ client.token # NoToken
  /\ now' = now + JwtExpiresIn
  /\ ticks' = ticks + 1
  /\ UNCHANGED <<accountVars, besideAccounts>>

\* ------------------------------------------------------------------------
\* Orders and payments (routes/gold.js): POST /purchase,
\* POST /orders/:orderId/pay, POST /orders/:orderId/verify
\* ------------------------------------------------------------------------

\* process.env.RAZORPAY_KEY_ID and RAZORPAY_SECRET: whether each is set
NoCredentials == [keyId |-> FALSE, secret |-> FALSE]

\* crypto.createHmac('sha256', key).update(order + '|' + payment).digest('hex'),
\* taken as free of collisions: the digest is the triple it was made from
Hmac(key, order, payment) == [key |-> key, order |-> order, payment |-> payment]

\* what the gateway signs a captured payment with
GatewaySecret == "RAZORPAY_SECRET"

\* the test of the pay route for the simulation mode
simulationMode(env) == ~env.keyId \/ ~env.secret

\* simulatePayment: Math.random() > 0.05, random in hundredths
simulatePayment(random) == random > 5

\* the test of the verify route: generatedSignature === razorpay_signature
signatureMatches(body) ==
  Hmac(GatewaySecret, body.razorpay_order_id, body.razorpay_payment_id)
    = body.razorpay_signature

\* no order, no request, no gateway order
OrdersEmpty ==
  /\ orders = <<>>
  /\ goldGrams = [u \in {} |-> 0]
  /\ handlers = <<>>
  /\ handled = 0
  /\ gatewayOrders = <<>>
  /\ captured = {}
  /\ credited = <<>>
  /\ orderAnswer = [id |-> 0, kind |-> "none", order |-> 0, code |-> 0]

OrdersIdle == OrdersEmpty /\ razorpay = NoCredentials

WebIdle == RouteIdle /\ HistoryIdle /\ OrdersIdle /\ OtherIdle

\* Order.findOne({ _id: orderId, userId }): 0 when there is none
findOrder(orderId, userId) ==
  IF orderId \in DOMAIN orders /\ orders[orderId].userId = userId THEN orderId ELSE 0

\* req.user.assets.goldGrams as authenticateToken loaded it
loadedGrams(userId) == IF userId \in DOMAIN goldGrams THEN goldGrams[userId] ELSE 0

\* the handler sends its response and ends
OrderRespond(h, code) ==
  /\ orderAnswer' = [id |-> h, kind |-> handlers[h].kind,
                     order |-> handlers[h].orderId, code |-> code]
  /\ handlers' = [i \in DOMAIN handlers \ {h} |-> handlers[i]]

\* handler h goes on to its next await with its order document as given
OrderAwait(h, pc, doc) ==
  /\ handlers' = [handlers EXCEPT ![h].pc = pc, ![h].doc = doc]
  /\ UNCHANGED orderAnswer

\* POST /purchase by userId creates a PENDING order of the grams
Purchase(userId, grams) ==
  /\ orders' = Append(orders, [userId |-> userId, grams |-> grams, status |-> "PENDING",
                               gatewayOrderId |-> 0, paymentId |-> 0])
  /\ UNCHANGED <<besideOrders, razorpay, goldGrams, handlers, handled, gatewayOrders,
                 captured, credited, orderAnswer>>

\* a pay or verify request of userId for orderId arrives and awaits
\* Order.findOne; body holds the razorpay_* fields of a verify request
OrderRequest(kind, userId, orderId, body) ==
  /\ handled' = handled + 1
  /\ handlers' = [i \in DOMAIN handlers \cup {handled + 1} |->
                    IF i = handled + 1
                    THEN [kind |-> kind, pc |-> "find", userId |-> userId,
                          orderId |-> orderId, body |-> body,
                          userGrams |-> loadedGrams(userId),
                          doc |-> [status |-> "none"]]
                    ELSE handlers[i]]
  /\ UNCHANGED <<besideOrders, razorpay, orders, goldGrams, gatewayOrders, captured,
                 credited, orderAnswer>>

\* pay: Order.findOne settles, lines 268-285 and 343
PayFound(h) ==
  /\ h \in DOMAIN handlers
  /\ handlers[h].kind = "pay"
  /\ handlers[h].pc = "find"
  /\ LET o == findOrder(handlers[h].orderId, handlers[h].userId)
     IN IF o = 0 THEN OrderRespond(h, 404)
        ELSE IF orders[o].status # "PENDING" THEN OrderRespond(h, 400)
        ELSE IF simulationMode(razorpay) THEN OrderAwait(h, "simulate", orders[o])
        ELSE OrderAwait(h, "create", orders[o])
  /\ UNCHANGED <<besideOrders, razorpay, orders, goldGrams, handled, gatewayOrders,
                 captured, credited>>

\* pay: razorpay.orders.create settles, lines 350-367 and 383-386
GatewayOrderCreated(h, ok) ==
  /\ h \in DOMAIN handlers
  /\ handlers[h].kind = "pay"
  /\ handlers[h].pc = "create"
  /\ IF ok
     THEN /\ gatewayOrders' = Append(gatewayOrders, [receipt |-> handlers[h].orderId])
          /\ OrderAwait(h, "saveProcessing",
                        [handlers[h].doc EXCEPT !.status = "PROCESSING",
                                                !.gatewayOrderId = Len(gatewayOrders) + 1])
     ELSE /\ OrderAwait(h, "simulate", handlers[h].doc)
          /\ UNCHANGED gatewayOrders
  /\ UNCHANGED <<besideOrders, razorpay, orders, goldGrams, handled, captured, credited>>

\* pay: simulatePayment settles, lines 287-300, 333-335 and 386-400, 431-443
PaymentSimulated(h, random) ==
  /\ h \in DOMAIN handlers
  /\ handlers[h].kind = "pay"
  /\ handlers[h].pc = "simulate"
  /\ IF simulatePayment(random)
     THEN OrderAwait(h, "save", [handlers[h].doc EXCEPT !.status = "COMPLETED",
                                                        !.paymentId = h])
     ELSE OrderAwait(h, "saveFailed", [handlers[h].doc EXCEPT !.status = "FAILED"])
  /\ UNCHANGED <<besideOrders, razorpay, orders, goldGrams, handled, gatewayOrders,
                 captured, credited>>

\* verify: Order.findOne settles, lines 477-509 and 527-538
VerifyFound(h) ==
  /\ h \in DOMAIN handlers
  /\ handlers[h].kind = "verify"
  /\ handlers[h].pc = "find"
  /\ LET o == findOrder(handlers[h].orderId, handlers[h].userId)
         body == handlers[h].body
     IN IF o = 0 THEN OrderRespond(h, 404)
        ELSE IF ~razorpay.secret THEN OrderRespond(h, 400)
        ELSE IF signatureMatches(body)
          THEN OrderAwait(h, "save",
                          [orders[o] EXCEPT !.status = "COMPLETED",
                                            !.paymentId = body.razorpay_payment_id,
                                            !.gatewayOrderId = body.razorpay_order_id])
        ELSE OrderAwait(h, "saveFailed", [orders[o] EXCEPT !.status = "FAILED"])
  /\ UNCHANGED <<besideOrders, razorpay, orders, goldGrams, handled, gatewayOrders,
                 captured, credited>>

\* await order.save() settles: the document the handler holds is written,
\* or the save throws and the catch answers 500
OrderSaved(h, ok) ==
  /\ h \in DOMAIN handlers
  /\ handlers[h].pc \in {"save", "saveFailed", "saveProcessing"}
  /\ IF ok
     THEN /\ orders' = [orders EXCEPT ![handlers[h].orderId] = handlers[h].doc]
          /\ CASE handlers[h].pc = "save" -> OrderAwait(h, "credit", handlers[h].doc)
               [] handlers[h].pc = "saveFailed" -> OrderRespond(h, 400)
               [] handlers[h].pc = "saveProcessing" -> OrderRespond(h, 200)
     ELSE /\ OrderRespond(h, 500)
          /\ UNCHANGED orders
  /\ UNCHANGED <<besideOrders, razorpay, goldGrams, handled, gatewayOrders, captured,
                 credited>>

\* await req.user.updateAssets(order.grams, order.pricePerGram) settles: the
\* grams are added to the assets the request loaded and the user is saved,
\* or the save throws and the catch answers 500
AssetsUpdated(h, ok) ==
  /\ h \in DOMAIN handlers
  /\ handlers[h].pc = "credit"
  /\ IF ok
     THEN /\ goldGrams' = [u \in DOMAIN goldGrams \cup {handlers[h].userId} |->
                             IF u = handlers[h].userId
                             THEN handlers[h].userGrams + handlers[h].doc.grams
                             ELSE goldGrams[u]]
          /\ credited' = Append(credited,
                                [order |-> handlers[h].orderId, by |-> handlers[h].kind,
                                 body |-> handlers[h].body])
          /\ OrderRespond(h, 200)
     ELSE /\ OrderRespond(h, 500)
          /\ UNCHANGED <<goldGrams, credited>>
  /\ UNCHANGED <<besideOrders, razorpay, orders, handled, gatewayOrders, captured>>

\* the gateway captures a payment for gateway order g; its checkout hands
\* the client the payment id and Hmac(secret, order id, payment id)
PaymentCaptured(g) ==
  /\ g \in DOMAIN gatewayOrders
  /\ g \notin captured
  /\ captured' = captured \cup {g}
  /\ UNCHANGED <<besideOrders, razorpay, orders, goldGrams, handlers, handled,
                 gatewayOrders, credited, orderAnswer>>

\* ------------------------------------------------------------------------
\* Inputs
\* ------------------------------------------------------------------------

MsgHello == JsString(<<"h","e","l","l","o">>)

MsgBuyGold == JsString(<<" ","B","u","y"," ","G","O","L","D">>)

\* a message that is not a string (a JSON number in the request body)
MsgNumber == JsNumber(7)

Messages == {MsgHello, MsgBuyGold, MsgNumber}

UserOne == <<"u","1">>

\* context = { userId, currentGoldPrice }; 0 and <<>> are absent fields
Contexts == {[userId |-> <<>>, currentGoldPrice |-> 0],
             [userId |-> UserOne, currentGoldPrice |-> 6850]}

\* what the price lookup of processMessage can give
PriceOutcomes == {[ok |-> TRUE, price |-> 6800], [ok |-> FALSE, price |-> 0]}

TextClean ==
  <<"G","o","l","d"," ","i","s"," ","a"," ","s","a","f","e"," ","i","n","v",
    "e","s","t","m","e","n","t",".">>

TextWhitespace == <<" ", "\n">>

TextJsonBlankMessage ==
  <<"{","\"","m","e","s","s","a","g","e","\"",":"," ","\""," ","\"",","," ",
    "\"","s","u","g","g","e","s","t","i","o","n","s","\"",":"," ","[","\"",
    "B","u","y","\"","]","}">>

TextJsonNumberMessage ==
  <<"{","\"","m","e","s","s","a","g","e","\"",":"," ","5",","," ","\"","s",
    "u","g","g","e","s","t","i","o","n","s","\"",":"," ","[","1","]","}">>

\* candidates[0].content.parts[0].text of a model reply
ModelTexts == {TextClean, TextWhitespace, TextJsonBlankMessage,
               TextJsonNumberMessage, <<>>}

\* what a model call can give: a reply with a text, or a failure (network
\* error, timeout, HTTP error status, a body without a text)
ModelOutcomes ==
  {[ok |-> TRUE, text |-> t] : t \in ModelTexts} \cup {[ok |-> FALSE, text |-> <<>>]}

\* ------------------------------------------------------------------------
\* Specification of the chat service
\* ------------------------------------------------------------------------

vars == <<now, ticks, geminiApiKey, chatVars, priceVars, webVars>>

Init ==
  /\ now = ProcessStart
  /\ ticks = 0
  /\ geminiApiKey \in {"unset", "placeholder", "key"}
  /\ responseCache = <<>>
  /\ requestQueue = <<>>
  /\ processing = FALSE
  /\ lastRequestTime = 0
  /\ drains = <<>>
  /\ calls = <<>>
  /\ started = 0
  /\ returned = NoCall
  /\ settled = {}
  /\ enqueued = <<>>
  /\ dispatched = <<>>
  /\ PriceIdle
  /\ WebIdle

Next ==
  \/ \E m \in Messages, ctx \in Contexts : started < MaxCalls /\ ProcessMessage(m, ctx)
  \/ \E c \in DOMAIN calls, o \in PriceOutcomes : PriceSettles(c, o)
  \/ \E c \in DOMAIN calls : AvailabilityKnown(c)
  \/ \E d \in 1..Len(drains) : TimerFires(d)
  \/ \E d \in 1..Len(drains), o \in ModelOutcomes : ModelReturns(d, o)
  \/ \E c \in DOMAIN calls : AIResponseKnown(c)
  \/ ticks < MaxTicks /\ Tick(minRequestInterval)

Spec == Init /\ [][Next]_vars

\* ------------------------------------------------------------------------
\* Specification of the request throttle queue: the chat service with a
\* configured key, one message and model calls that succeed or fail
\* ------------------------------------------------------------------------

\* how many processMessage calls a run of the queue specification makes
MaxJobs == 3

\* how many times the clock advances on its own in the queue specification
MaxQueueTicks == 1

QueueContexts == {[userId |-> <<>>, currentGoldPrice |-> 0],
                  [userId |-> <<>>, currentGoldPrice |-> 6850]}

QueueOutcomes == {[ok |-> TRUE, text |-> TextClean], [ok |-> FALSE, text |-> <<>>]}

\* by how much the clock advances in one step of the queue specification
QueueTickSteps == {minRequestInterval}

\* a drain sleeps in setTimeout and its time has not come
TimerWaiting == \E d \in 1..Len(drains) : drains[d].pc = "timer" /\ now < drains[d].wake

QueueInit ==
  /\ now = ProcessStart
  /\ ticks = 0
  /\ geminiApiKey = "key"
  /\ responseCache = <<>>
  /\ requestQueue = <<>>
  /\ processing = FALSE
  /\ lastRequestTime = 0
  /\ drains = <<>>
  /\ calls = <<>>
  /\ started = 0
  /\ returned = NoCall
  /\ settled = {}
  /\ enqueued = <<>>
  /\ dispatched = <<>>
  /\ PriceIdle
  /\ WebIdle

QueueCall == \E ctx \in QueueContexts : started < MaxJobs /\ ProcessMessage(MsgHello, ctx)

QueuePrice == \E c \in DOMAIN calls : PriceSettles(c, [ok |-> TRUE, price |-> 6800])

QueuePush == \E c \in DOMAIN calls : AvailabilityKnown(c)

QueueTimer == \E d \in 1..Len(drains) : TimerFires(d)

QueueReply == \E d \in 1..Len(drains), o \in QueueOutcomes : ModelReturns(d, o)

QueueResume == \E c \in DOMAIN calls : AIResponseKnown(c)

\* time passes: a bounded number of times on its own, and always while a
\* drain sleeps in setTimeout
QueueTick == \E d \in QueueTickSteps : (ticks < MaxQueueTicks \/ TimerWaiting) /\ Tick(d)

QueueNext ==
  \/ QueueCall
  \/ QueuePrice
  \/ QueuePush
  \/ QueueTimer
  \/ QueueReply
  \/ QueueResume
  \/ QueueTick

QueueSpec == QueueInit /\ [][QueueNext]_vars

\* a step of the queue that the event loop is bound to take: a job is
\* pushed, a timer whose time has come fires, time passes while a timer
\* sleeps, a model call returns or fails, the caller of a settled job resumes
QueueProgress ==
  \/ QueuePush
  \/ QueueTimer
  \/ QueueReply
  \/ QueueResume
  \/ \E d \in QueueTickSteps : TimerWaiting /\ Tick(d)

\* how many processMessage calls a run of the liveness specification makes
MaxLiveJobs == 2

LiveCall == \E ctx \in QueueContexts : started < MaxLiveJobs /\ ProcessMessage(MsgHello, ctx)

LiveNext ==
  \/ LiveCall
  \/ QueuePrice
  \/ QueuePush
  \/ QueueTimer
  \/ QueueReply
  \/ QueueResume
  \/ QueueTick

\* the queue specification with the event loop running and every model call
\* returning or failing
QueueLive == QueueInit /\ [][LiveNext]_vars /\ WF_vars(QueueProgress)

\* ------------------------------------------------------------------------
\* Properties of the request throttle queue
\* ------------------------------------------------------------------------

\* the set of elements of a sequence
Range(seq) == {seq[n] : n \in 1..Len(seq)}

\* the queue is idle: flag released, nothing queued, no drain suspended
QueueIdle == ~processing /\ requestQueue = <<>> /\ drains = <<>>

\* C4: model-call jobs are dispatched in exactly the order in which
\* getThrottledAIResponse enqueued them: the calls made are the first jobs
\* enqueued, in that order, and the jobs still queued are the rest, so no
\* job is skipped, reordered or dispatched twice.
C4_FifoDispatch ==
  /\ Len(dispatched) <= Len(enqueued)
  /\ \A k \in 1..Len(dispatched) : dispatched[k].caller = enqueued[k]
  /\ requestQueue = SubSeq(enqueued, Len(dispatched) + 1, Len(enqueued))

\* two jobs wait in the queue behind a model call in flight, and the jobs
\* were not enqueued in the order their callers started
C4_Witness ==
  /\ Len(requestQueue) >= 2
  /\ \E d \in 1..Len(drains) : drains[d].pc = "gemini"
  /\ enqueued[1] # 1

\* C5: any two consecutive model calls dispatched by the chat throttle
\* queue are at least minRequestInterval apart, whether the earlier one
\* succeeded or failed.
C5_MinSpacing ==
  \A k \in 2..Len(dispatched) :
    dispatched[k].at - dispatched[k - 1].at >= minRequestInterval

\* C6: at most one drain of the request queue is active at any time (so at
\* most one model call is in flight), the processing flag is set exactly
\* while it is, and an enqueue made while the flag is set only appends its
\* job: it starts no drain and dispatches nothing.
C6_SingleDrain ==
  /\ [](Len(drains) <= 1 /\ (processing <=> Len(drains) = 1))
  /\ [][(processing /\ Len(enqueued') > Len(enqueued))
          => /\ requestQueue' = Append(requestQueue, enqueued'[Len(enqueued')])
             /\ drains' = drains
             /\ dispatched' = dispatched
             /\ processing']_vars

\* a job has been appended behind a model call in flight
C6_Witness ==
  /\ processing
  /\ Len(requestQueue) >= 1
  /\ \E d \in 1..Len(drains) : drains[d].pc = "gemini"

\* C7: provided every model call returns or fails, every job enqueued is
\* eventually dispatched and its promise settled, and the queue returns to
\* idle (flag released, queue empty): again and again the queue is idle
\* with every job enqueued so far dispatched and settled.
C7_EveryJobSettles ==
  []<>(/\ QueueIdle
       /\ settled = Range(enqueued)
       /\ [k \in 1..Len(dispatched) |-> dispatched[k].caller] = enqueued)

\* the queue is idle again after a job that was enqueued when an earlier
\* drain had ended, every job settled
C7_Witness ==
  /\ QueueIdle
  /\ Len(enqueued) = MaxLiveJobs
  /\ settled = Range(enqueued)
  /\ dispatched[2].at > dispatched[1].at

\* ------------------------------------------------------------------------
\* Properties of processMessage
\* ------------------------------------------------------------------------

\* C1: the reply returned by processMessage has a message that is a
\* non-empty, non-whitespace string, on every path: cache hit, fallback,
\* and every model reply text.
C1_NonBlankReply ==
  returned.result.kind = "reply" => NonBlankMessage(returned.result.reply)

\* C2: processMessage never rejects: every call that ends gives its caller
\* a reply object; a failed model call gives the fallback reply of the
\* message's intent, and an internal exception (a message that is not a
\* string, a failed price lookup) gives the fixed error reply.
C2_NeverThrows ==
  returned.id # 0 =>
    /\ returned.result.kind = "reply"
    /\ returned.path = "aifail" =>
         LET intent == analyzeIntent(returned.message.s)
             reply == returned.result.reply
         IN /\ reply.source = "fallback"
            /\ reply.metadata.intent = intent.category
            /\ reply.message =
                 getFallbackResponse(intent, reply.metadata.goldPrice).message
    /\ returned.path = "error" => returned.result.reply = getErrorResponse

\* a call with a string message has ended in the error reply: its price
\* lookup failed
C2_Witness ==
  /\ returned.path = "error"
  /\ returned.message.t = "string"
  /\ returned.result.reply.source = "error"

\* ------------------------------------------------------------------------
\* Specification of the price estimator
\* ------------------------------------------------------------------------

\* how many getCurrentPrice and refreshPrice calls a run makes
MaxPriceCalls == 3

\* how many times the clock advances in a run of the price estimator
MaxPriceTicks == 1

\* the hour of the day and the value of Math.random() (in 1/10000) when a
\* price is synthesized: the highest and the lowest price
PriceSamples == {[hour |-> 6, random |-> 9999], [hour |-> 18, random |-> 0]}

PriceTextPlain ==
  <<"6","8","5","0">>

PriceTextRupeeSign ==
  <<"RUPEE","7","5","0","0"," ","p","e","r"," ","g","r","a","m">>

PriceTextComma ==
  <<"1","2","3","4","5"," ","o","r"," ","6",",","8","5","0">>

PriceTextTooHigh ==
  <<"R","s",".","9","9","9","9","9">>

\* candidates[0].content.parts[0].text of a reply to the price prompt
PriceTexts == {PriceTextPlain, PriceTextRupeeSign, PriceTextComma, PriceTextTooHigh,
               TextWhitespace, <<>>}

\* what the model call of fetchFromGemini can give
PriceModelOutcomes ==
  {[ok |-> TRUE, text |-> t] : t \in PriceTexts} \cup {[ok |-> FALSE, text |-> <<>>]}

PriceInit ==
  /\ now = ProcessStart
  /\ ticks = 0
  /\ geminiApiKey \in {"unset", "placeholder", "key"}
  /\ responseCache = <<>>
  /\ requestQueue = <<>>
  /\ processing = FALSE
  /\ lastRequestTime = 0
  /\ drains = <<>>
  /\ calls = <<>>
  /\ started = 0
  /\ returned = NoCall
  /\ settled = {}
  /\ enqueued = <<>>
  /\ dispatched = <<>>
  /\ PriceIdle
  /\ WebIdle

\* a further price call may be made
MorePriceCalls == priceStarted < MaxPriceCalls

PriceNext ==
  \/ \E sample \in PriceSamples : MorePriceCalls /\ GetCurrentPrice(sample)
  \/ \E sample \in PriceSamples : MorePriceCalls /\ RefreshPrice(sample)
  \/ \E c \in DOMAIN priceCalls, o \in PriceModelOutcomes :
       GeminiPriceReturns(c, o, PriceSamples)
  \/ \E c \in DOMAIN priceCalls : PriceReturns(c)
  \/ ticks < MaxPriceTicks /\ Tick(cacheDuration)

PriceSpec == PriceInit /\ [][PriceNext]_vars

\* ------------------------------------------------------------------------
\* Specification of the chat response cache: processMessage calls without
\* a configured key, each answered by the fallback and cached
\* ------------------------------------------------------------------------

\* how many processMessage calls a run of the cache specification makes
MaxCacheCalls == 103

\* how many times the clock advances in a run of the cache specification
MaxCacheTicks == 1

\* the messages call n can send, as numbers: the first MaxCacheSize calls
\* send a message each of their own; a later call sends a new message, the
\* first message again or the message of the call before it
CacheCallMessages(n) ==
  {n} \cup (IF n > MaxCacheSize THEN {1, n - 1} ELSE {})

\* the message written as the number k
NumberMessage(k) == JsString(NumberToString(k))

CacheInit ==
  /\ now = ProcessStart
  /\ ticks = 0
  /\ geminiApiKey = "unset"
  /\ responseCache = <<>>
  /\ requestQueue = <<>>
  /\ processing = FALSE
  /\ lastRequestTime = 0
  /\ drains = <<>>
  /\ calls = <<>>
  /\ started = 0
  /\ returned = NoCall
  /\ settled = {}
  /\ enqueued = <<>>
  /\ dispatched = <<>>
  /\ PriceIdle
  /\ WebIdle

CacheCall ==
  \E k \in CacheCallMessages(started + 1) :
    /\ started < MaxCacheCalls
    /\ ProcessMessage(NumberMessage(k), [userId |-> <<>>, currentGoldPrice |-> 6850])

CacheStore == \E c \in DOMAIN calls : AvailabilityKnown(c)

\* the entries expire while the cache is full
CacheTick ==
  /\ Len(responseCache) = MaxCacheSize
  /\ ticks < MaxCacheTicks
  /\ Tick(cacheExpiry)

CacheNext ==
  \/ CacheCall
  \/ CacheStore
  \/ CacheTick

CacheSpec == CacheInit /\ [][CacheNext]_vars

\* ------------------------------------------------------------------------
\* Properties of the price estimator
\* ------------------------------------------------------------------------

\* C3: every quote the price estimator returns, whatever its source tag,
\* carries a price within 5500..8000 when the price was parsed from a model
\* reply and within 6200..7200 when it was synthesized, and the same holds
\* of the price in the cache: no model reply puts an out-of-range price
\* into the cache.
C3_PriceBounds ==
  LET bounded(price, origin) ==
        /\ origin \in {"model", "synth"}
        /\ origin = "model" => price >= 5500 /\ price <= 8000
        /\ origin = "synth" => price >= 6200 /\ price <= 7200
  IN /\ quote.kind = "quote" => bounded(quote.price, quote.origin)
     /\ priceCache.price # 0 => bounded(priceCache.price, priceCache.origin)

\* a price parsed from a model reply, outside the synthesized range, has
\* been returned from the cache
C3_Witness ==
  /\ quote.source = "cache"
  /\ quote.origin = "model"
  /\ quote.price > 7200

C9_SamePriceInWindow ==
  (quote.kind = "quote" /\ quote.owed # {})
    => quote.owed = {quote.price} /\ quote.source = "cache"

\* ------------------------------------------------------------------------
\* Properties of the chat response cache
\* ------------------------------------------------------------------------

\* C10: the chat response cache never holds more than 100 entries; a call
\* that caches a key the full cache does not hold evicts the entry first in
\* insertion order, which can then not be retrieved, keeps every other
\* entry, and the key just inserted is the last entry and can be retrieved.
C10_CacheBound ==
  /\ [](Len(responseCache) <= 100)
  /\ [][\A c \in DOMAIN calls :
          (/\ c \notin DOMAIN calls'
           /\ returned'.id = c
           /\ returned'.path \in {"fallback", "ai", "aifail"}
           /\ Len(responseCache) = 100
           /\ CachePos(responseCache, calls[c].cacheKey) = {})
          => /\ Len(responseCache') = 100
             /\ SubSeq(responseCache', 1, 99) = Tail(responseCache)
             /\ responseCache'[100].key = calls[c].cacheKey
             /\ cacheHit(responseCache', calls[c].cacheKey, now')
             /\ ~cacheHit(responseCache', responseCache[1].key, now')]_vars

\* the call after the cache became full has cached its reply: the key of
\* the first message is gone and the key just inserted is the last entry
C10_Witness ==
  /\ Len(responseCache) = 100
  /\ returned.id > 100
  /\ returned.path = "fallback"
  /\ CachePos(responseCache, cacheKeyOf(NumberToString(1), <<>>)) = {}
  /\ responseCache[100].key = cacheKeyOf(returned.message.s, <<>>)

\* ------------------------------------------------------------------------
\* Specification of cache lookups: the chat service with a configured key,
\* messages that share a cache key, and a clock that brings an entry to one
\* millisecond before its expiry and then to it
\* ------------------------------------------------------------------------

\* how many processMessage calls a run of the lookup specification makes
MaxExpiryCalls == 2

\* how many times the clock advances in a run of the lookup specification
MaxExpiryTicks == 2

\* "hello" with other case and surrounding whitespace: the same cache key
MsgHelloShout == JsString(<<" ","H","E","L","L","O"," ">>)

ExpiryMessages == {MsgHello, MsgHelloShout}

ExpiryContexts == {[userId |-> <<>>, currentGoldPrice |-> 0],
                   [userId |-> UserOne, currentGoldPrice |-> 6850]}

ExpiryTickSteps == {cacheExpiry - 1, 1}

ExpiryCall ==
  \E m \in ExpiryMessages, ctx \in ExpiryContexts :
    started < MaxExpiryCalls /\ ProcessMessage(m, ctx)

ExpiryTick == \E d \in ExpiryTickSteps : ticks < MaxExpiryTicks /\ Tick(d)

ExpiryNext ==
  \/ ExpiryCall
  \/ QueuePrice
  \/ QueuePush
  \/ QueueTimer
  \/ QueueReply
  \/ QueueResume
  \/ ExpiryTick

ExpirySpec == QueueInit /\ [][ExpiryNext]_vars

\* ------------------------------------------------------------------------
\* Properties of cache lookups
\* ------------------------------------------------------------------------

MaxNoKeyCalls == 2

\* how many times the clock advances in a run without a key
MaxNoKeyTicks == 1

NoKeyMessages == {MsgHello, MsgHelloShout, MsgBuyGold}

NoKeyInit ==
  /\ now = ProcessStart
  /\ ticks = 0
  /\ geminiApiKey \in {"unset", "placeholder"}
  /\ responseCache = <<>>
  /\ requestQueue = <<>>
  /\ processing = FALSE
  /\ lastRequestTime = 0
  /\ drains = <<>>
  /\ calls = <<>>
  /\ started = 0
  /\ returned = NoCall
  /\ settled = {}
  /\ enqueued = <<>>
  /\ dispatched = <<>>
  /\ PriceIdle
  /\ WebIdle

NoKeyCall ==
  \E m \in NoKeyMessages, ctx \in Contexts :
    started + priceStarted < MaxNoKeyCalls /\ ProcessMessage(m, ctx)

\* the price lookup of processMessage gives a synthesized price
NoKeyPrice ==
  \E c \in DOMAIN calls, sample \in PriceSamples :
    PriceSettles(c, [ok |-> TRUE,
                     price |-> generateRealisticPrice(sample.hour, sample.random)])

NoKeyAnswer == \E c \in DOMAIN calls : AvailabilityKnown(c)

NoKeyGetPrice ==
  \E sample \in PriceSamples :
    started + priceStarted < MaxNoKeyCalls /\ GetCurrentPrice(sample)

NoKeyQuote == \E c \in DOMAIN priceCalls : PriceReturns(c)

NoKeyTick == ticks < MaxNoKeyTicks /\ Tick(cacheDuration)

NoKeyNext ==
  \/ NoKeyCall
  \/ NoKeyPrice
  \/ NoKeyAnswer
  \/ NoKeyGetPrice
  \/ NoKeyQuote
  \/ NoKeyTick

NoKeySpec == NoKeyInit /\ [][NoKeyNext]_vars

\* ------------------------------------------------------------------------
\* Properties of the services without a key
\* ------------------------------------------------------------------------

\* the row of the fallback table that answers a category
fallbackRow(category) ==
  IF category \in FallbackCategories THEN category ELSE "gold_general"

MaxIntentCalls == 2

MsgWantBuyGold == JsString(
    <<"I"," ","w","a","n","t"," ","t","o"," ","b","u","y"," ","g","o","l",
      "d">>)

MsgBuyRate == JsString(
    <<"P","u","r","c","h","a","s","e"," ","a","t"," ","t","o","d","a","y",
      "'","s"," ","r","a","t","e">>)

MsgGoldPrice == JsString(
    <<"W","h","a","t"," ","i","s"," ","t","h","e"," ","g","o","l","d"," ",
      "P","R","I","C","E","?">>)

MsgRatePortfolio == JsString(
    <<"r","a","t","e"," ","m","y"," ","p","o","r","t","f","o","l","i","o">>)

MsgGoldHoldings == JsString(
    <<"m","y"," ","g","o","l","d"," ","h","o","l","d","i","n","g","s">>)

MsgHoldingsOnly == JsString(
    <<"m","y"," ","h","o","l","d","i","n","g","s">>)

MsgSavings == JsString(
    <<"s","a","v","i","n","g","s">>)

MsgHelloGold == JsString(
    <<"h","e","l","l","o"," ","g","o","l","d">>)

MsgHiMarket == JsString(
    <<"H","i",","," ","h","o","w"," ","i","s"," ","t","h","e"," ","m","a",
      "r","k","e","t">>)

MsgGoodMorning == JsString(
    <<"G","o","o","d"," ","m","o","r","n","i","n","g">>)

MsgHistory == JsString(
    <<"h","i","s","t","o","r","y">>)

MsgSayHello == JsString(
    <<"s","a","y"," ","h","e","l","l","o">>)

MsgThanks == JsString(
    <<"t","h","a","n","k","s">>)

IntentMessages ==
  {MsgHello, MsgHelloShout, MsgBuyGold,
   MsgWantBuyGold,
   MsgBuyRate,
   MsgGoldPrice,
   MsgRatePortfolio,
   MsgGoldHoldings,
   MsgHoldingsOnly,
   MsgSavings,
   MsgHelloGold,
   MsgHiMarket,
   MsgGoodMorning,
   MsgHistory,
   MsgSayHello,
   MsgThanks}

IntentContext == [userId |-> <<>>, currentGoldPrice |-> 6850]

\* processMessage is called with a message to classify
IntentCall ==
  \E m \in IntentMessages :
    started < MaxIntentCalls /\ ProcessMessage(m, IntentContext)

IntentNext ==
  \/ IntentCall
  \/ NoKeyAnswer

IntentSpec == NoKeyInit /\ [][IntentNext]_vars

\* C13: analyzeIntent applies its rules in order, first match wins: a gold
\* keyword with 'buy' or 'purchase' is purchase_intent at 0.9; else a keyword
\* with 'price' or 'rate' is price_inquiry at 0.8; else a keyword with
\* 'portfolio' or 'holdings' is portfolio_check at 0.9; else any keyword is
\* gold_general at 0.7; else a greeting prefix is greeting at 0.9; else
\* general at 0.5.  "I want to buy gold" is purchase_intent at 0.9, and a
\* message with a keyword is never a greeting.
C13_IntentOrder ==
  returned.path = "fallback" =>
    LET text == returned.message.s
        meta == returned.result.reply.metadata
        mentions(message, words) ==
          \E w \in words : includes(toLowerCase(message), w)
        keyword == mentions(text, {goldInvestmentKeywords[k] :
                                     k \in 1..Len(goldInvestmentKeywords)})
        buys == mentions(text, {<<"b","u","y">>, <<"p","u","r","c","h","a","s","e">>})
        prices == mentions(text, {<<"p","r","i","c","e">>, <<"r","a","t","e">>})
        holds == mentions(text, {<<"p","o","r","t","f","o","l","i","o">>,
                                 <<"h","o","l","d","i","n","g","s">>})
        greets == \E g \in 1..Len(GreetingPrefixes) :
                    startsWith(toLowerCase(text), GreetingPrefixes[g])
        is(category, confidence) ==
          meta.intent = category /\ meta.confidence = confidence
    IN /\ keyword /\ buys => is("purchase_intent", 9)
       /\ keyword /\ ~buys /\ prices => is("price_inquiry", 8)
       /\ keyword /\ ~buys /\ ~prices /\ holds => is("portfolio_check", 9)
       /\ keyword /\ ~buys /\ ~prices /\ ~holds => is("gold_general", 7)
       /\ ~keyword /\ greets => is("greeting", 9)
       /\ ~keyword /\ ~greets => is("general", 5)
       /\ returned.message = MsgWantBuyGold => is("purchase_intent", 9)
       /\ returned.message = MsgHelloGold => is("gold_general", 7)
       /\ returned.message = MsgHoldingsOnly => is("general", 5)

\* "hello gold", a greeting that names a keyword, has been classified
C13_Witness ==
  /\ returned.path = "fallback"
  /\ returned.message = MsgHelloGold
  /\ returned.result.reply.metadata.intent = "gold_general"
  /\ returned.result.reply.metadata.confidence = 7

\* ------------------------------------------------------------------------
\* Specification of POST /api/chat: requests with any message, a
\* processMessage that returns any value or throws, and a persistence layer
\* and price service that may throw at every await
\* ------------------------------------------------------------------------

\* how many requests a run makes
MaxRequests == 2

RouteMessages ==
  {MsgHello, JsString(<<" ", "\n">>), JsString(<<>>), JsUndefined, JsNumber(5)}

\* what processMessage may resolve to
AiResponses ==
  {JsUndefined, JsNull,
   AiObject(JsUndefined, JsUndefined),
   AiObject(JsString(<<>>), JsUndefined),
   AiObject(JsString(<<" ", "\t">>), JsUndefined),
   AiObject(JsNumber(5), JsUndefined),
   AiObject(JsString(<<" ", "o", "k", " ">>), JsUndefined),
   AiObject(JsUndefined, JsString(<<"h", "i">>)),
   AiObject(JsString(<<>>), JsString(<<" ">>)),
   AiObject(JsString(fallbackMessage("greeting")), JsUndefined)}

RouteInit ==
  /\ now = ProcessStart
  /\ ticks = 0
  /\ geminiApiKey \in {"unset", "key"}
  /\ responseCache = <<>>
  /\ requestQueue = <<>>
  /\ processing = FALSE
  /\ lastRequestTime = 0
  /\ drains = <<>>
  /\ calls = <<>>
  /\ started = 0
  /\ returned = NoCall
  /\ settled = {}
  /\ enqueued = <<>>
  /\ dispatched = <<>>
  /\ PriceIdle
  /\ WebIdle

\* how an await settles: it resolves, or it throws and the catch block's
\* res.json succeeds or throws
Settlements ==
  {[ok |-> TRUE, sendFails |-> FALSE],
   [ok |-> FALSE, sendFails |-> FALSE],
   [ok |-> FALSE, sendFails |-> TRUE]}

RoutePost ==
  \E message \in RouteMessages, sendFails \in BOOLEAN :
    posted < MaxRequests /\ PostChat(message, sendFails)

RouteSession ==
  \E r \in DOMAIN requests, s \in Settlements : SessionReady(r, s.ok, s.sendFails)

RouteUserSaved ==
  \E r \in DOMAIN requests, s \in Settlements : UserMessageSaved(r, s.ok, s.sendFails)

RoutePrice ==
  \E r \in DOMAIN requests, s \in Settlements : PriceKnown(r, s.ok, s.sendFails)

RouteProcessed ==
  \E r \in DOMAIN requests :
    \/ \E aiResponse \in AiResponses : MessageProcessed(r, TRUE, aiResponse, FALSE)
    \/ \E sendFails \in BOOLEAN : MessageProcessed(r, FALSE, JsUndefined, sendFails)

RouteSaved ==
  \E r \in DOMAIN requests, ok \in BOOLEAN, sendFails \in BOOLEAN :
    AssistantSaved(r, ok, sendFails)

RouteResaved ==
  \E r \in DOMAIN requests, ok \in BOOLEAN, sendFails \in BOOLEAN :
    FallbackSaved(r, ok, sendFails)

RouteNext ==
  \/ RoutePost
  \/ RouteSession
  \/ RouteUserSaved
  \/ RoutePrice
  \/ RouteProcessed
  \/ RouteSaved
  \/ RouteResaved

RouteSpec == RouteInit /\ [][RouteNext]_vars

\* ------------------------------------------------------------------------
\* Properties of POST /api/chat
\* ------------------------------------------------------------------------

\* C14: every POST /api/chat request whose message passes the route's blank
\* test is answered, and the message of the body sent (its content, or the
\* message itself in the 500 body) is a string that is not empty, whatever
\* processMessage resolved to and whichever await threw; no handler ends
\* without sending a response.
C14_NonEmptyAnswer ==
  /\ \A r \in 1..posted : r \in DOMAIN requests \/ r \in answered
  /\ \A r \in DOMAIN requests :
       requests[r].pc \in {"session", "addUser", "price", "process", "save", "resave"}
  /\ (answer.id # 0 /\ ~messageRejected(answer.request)) =>
       LET message == answer.body.message
           text == IF message.t = "object" THEN message.content ELSE message
       IN /\ answer.status \in {200, 500}
          /\ text.t = "string"
          /\ trim(text.s) # <<>>

\* "hello" was answered with the apology the route substitutes for an
\* invalid processMessage result
C14_Witness ==
  /\ answer.request = MsgHello
  /\ answer.status = 200
  /\ answer.body = ChatBody(trim(ApologyMessage))

\* ------------------------------------------------------------------------
\* Properties of the price estimator's model calls
\* ------------------------------------------------------------------------

\* C15: two model calls of the price service are never dispatched less than
\* ten minutes apart, concurrent cache misses included: a model call is at
\* least ten minutes after the one dispatched before it.
C15_PriceCallSpacing ==
  priceDispatched.previous # 0 =>
    priceDispatched.at - priceDispatched.previous >= 600000

\* C17: a model call of the price service that failed (it threw or its reply
\* held no valid price) still counts for ten minutes from its call time: no
\* model call is dispatched after the failure and within that time.
C17_FailureCounts ==
  priceDispatched.failedBefore # 0 =>
    priceDispatched.at - priceDispatched.failedBefore >= 600000

\* ------------------------------------------------------------------------
\* Specification of both services with a configured key: processMessage
\* calls through the throttle queue next to getCurrentPrice calls
\* ------------------------------------------------------------------------

\* how many processMessage calls a run makes
MaxBothJobs == 2

\* how many getCurrentPrice calls a run makes
MaxBothPriceCalls == 1

\* how many times the clock advances on its own
MaxBothTicks == 1

BothSample == [hour |-> 6, random |-> 9999]

BothPriceOutcomes == {[ok |-> TRUE, text |-> PriceTextPlain], [ok |-> FALSE, text |-> <<>>]}

BothCall ==
  started < MaxBothJobs
  /\ ProcessMessage(MsgHello, [userId |-> <<>>, currentGoldPrice |-> 6850])

BothGetPrice == priceStarted < MaxBothPriceCalls /\ GetCurrentPrice(BothSample)

BothPriceReply ==
  \E c \in DOMAIN priceCalls, o \in BothPriceOutcomes :
    GeminiPriceReturns(c, o, {BothSample})

BothQuote == \E c \in DOMAIN priceCalls : PriceReturns(c)

BothTick ==
  \E d \in QueueTickSteps : (ticks < MaxBothTicks \/ TimerWaiting) /\ Tick(d)

BothNext ==
  \/ BothCall
  \/ QueuePush
  \/ QueueTimer
  \/ QueueReply
  \/ QueueResume
  \/ BothGetPrice
  \/ BothPriceReply
  \/ BothQuote
  \/ BothTick

BothSpec == QueueInit /\ [][BothNext]_vars

\* ------------------------------------------------------------------------
\* Properties of the model calls of both services
\* ------------------------------------------------------------------------

\* C16: the model calls of the price service and of the chat service are
\* serialized: a price model call and a chat model call are never in flight
\* together, and a price model call and a chat model call are dispatched at
\* least the minimum spacing (3 s) apart.
C16_SerializedAcrossServices ==
  /\ ~(/\ \E d \in 1..Len(drains) : drains[d].pc = "gemini"
       /\ \E c \in DOMAIN priceCalls : priceCalls[c].pc = "awaitGemini")
  /\ priceDispatched.at # 0 =>
       \A k \in 1..Len(dispatched) :
         \/ dispatched[k].at - priceDispatched.at >= 3000
         \/ priceDispatched.at - dispatched[k].at >= 3000

\* ------------------------------------------------------------------------
\* Specification of the price history: getPriceHistory calls next to the
\* price calls that fill the cache
\* ------------------------------------------------------------------------

\* how many getPriceHistory calls a run makes
MaxHistoryCalls == 2

\* how many getCurrentPrice calls a run makes
MaxHistoryPriceCalls == 1

\* how many times the clock advances
MaxHistoryTicks == 1

\* '1y' is a period the switch has no case for
HistoryPeriods == {"1d", "1w", "1m", "1y"}

\* what Math.random() gives for the points of a history
HistoryRandoms ==
  {[k \in 1..30 |-> [price |-> 0, volume |-> 0]],
   [k \in 1..30 |-> [price |-> 9999, volume |-> 9999]],
   [k \in 1..30 |-> [price |-> (k * 3331) % 10000, volume |-> (k * 7919) % 10000]]}

HistoryCall ==
  \E period \in HistoryPeriods, sample \in PriceSamples, randoms \in HistoryRandoms :
    priceHistory.id < MaxHistoryCalls /\ GetPriceHistory(period, sample, randoms)

HistoryGetPrice ==
  \E sample \in PriceSamples :
    priceStarted < MaxHistoryPriceCalls /\ GetCurrentPrice(sample)

HistoryPriceReply ==
  \E c \in DOMAIN priceCalls, o \in BothPriceOutcomes :
    GeminiPriceReturns(c, o, PriceSamples)

HistoryQuote == \E c \in DOMAIN priceCalls : PriceReturns(c)

HistoryTick == ticks < MaxHistoryTicks /\ Tick(cacheDuration)

HistoryNext ==
  \/ HistoryCall
  \/ HistoryGetPrice
  \/ HistoryPriceReply
  \/ HistoryQuote
  \/ HistoryTick

HistorySpec == PriceInit /\ [][HistoryNext]_vars

\* ------------------------------------------------------------------------
\* Properties of the price history
\* ------------------------------------------------------------------------

\* C18: getPriceHistory returns exactly 24, 7 and 30 points for the periods
\* 1d, 1w and 1m, consecutive points are exactly 1 hour, 1 day and 1 day
\* apart, and the timestamp of the last point is the time of the call.
C18_HistoryShape ==
  priceHistory.period \in {"1d", "1w", "1m"} =>
    LET data == priceHistory.data
        points == CASE priceHistory.period = "1d" -> 24
                    [] priceHistory.period = "1w" -> 7
                    [] priceHistory.period = "1m" -> 30
        apart == IF priceHistory.period = "1d" THEN 3600 ELSE 86400
    IN /\ Len(data) = points
       /\ \A k \in 1..(Len(data) - 1) : data[k].ago - data[k + 1].ago = apart
       /\ data[Len(data)].ago = 0

\* ------------------------------------------------------------------------
\* Specification of the order routes: purchases, pay and verify requests of
\* two users, a gateway that creates orders and captures payments, and a
\* database whose saves may fail
\* ------------------------------------------------------------------------

\* how many orders a run creates
MaxOrders == 2

\* how many pay and verify requests a run makes
MaxOrderRequests == 2

OrderUsers == {1, 2}

\* order.grams, in units of 0.0001 g
OrderGrams == {100}

\* Math.random() of simulatePayment, in hundredths
PaymentRandoms == {5, 50}

\* the payment id the gateway gives the payment of gateway order g
PaymentOf(g) == g

\* the body of a pay request
NoBody == [razorpay_order_id |-> 0, razorpay_payment_id |-> 0,
           razorpay_signature |-> Hmac("none", 0, 0)]

\* the bodies a client can send to verify: for a gateway order, the
\* signature the gateway handed out when it captured the payment, or one
\* made without the secret
VerifyBodies ==
  {[razorpay_order_id |-> g, razorpay_payment_id |-> PaymentOf(g),
    razorpay_signature |-> Hmac(GatewaySecret, g, PaymentOf(g))] : g \in captured}
  \cup
  {[razorpay_order_id |-> g, razorpay_payment_id |-> PaymentOf(g),
    razorpay_signature |-> Hmac("guess", g, PaymentOf(g))] : g \in DOMAIN gatewayOrders}
  \cup {NoBody}

OrderInit ==
  /\ now = ProcessStart
  /\ ticks = 0
  /\ geminiApiKey = "unset"
  /\ responseCache = <<>>
  /\ requestQueue = <<>>
  /\ processing = FALSE
  /\ lastRequestTime = 0
  /\ drains = <<>>
  /\ calls = <<>>
  /\ started = 0
  /\ returned = NoCall
  /\ settled = {}
  /\ enqueued = <<>>
  /\ dispatched = <<>>
  /\ PriceIdle
  /\ RouteIdle
  /\ HistoryIdle
  /\ OrdersEmpty
  /\ razorpay \in [keyId : BOOLEAN, secret : BOOLEAN]
  /\ OtherIdle

OrderPurchase ==
  \E u \in OrderUsers, grams \in OrderGrams :
    Len(orders) < MaxOrders /\ Purchase(u, grams)

OrderPay ==
  \E u \in OrderUsers, o \in 1..MaxOrders :
    handled < MaxOrderRequests /\ OrderRequest("pay", u, o, NoBody)

OrderVerify ==
  \E u \in OrderUsers, o \in 1..MaxOrders, body \in VerifyBodies :
    handled < MaxOrderRequests /\ OrderRequest("verify", u, o, body)

OrderPayFound == \E h \in DOMAIN handlers : PayFound(h)

OrderGateway == \E h \in DOMAIN handlers, ok \in BOOLEAN : GatewayOrderCreated(h, ok)

OrderSimulated ==
  \E h \in DOMAIN handlers, random \in PaymentRandoms : PaymentSimulated(h, random)

OrderVerifyFound == \E h \in DOMAIN handlers : VerifyFound(h)

OrderSave == \E h \in DOMAIN handlers, ok \in BOOLEAN : OrderSaved(h, ok)

OrderCredit == \E h \in DOMAIN handlers, ok \in BOOLEAN : AssetsUpdated(h, ok)

OrderCapture == \E g \in DOMAIN gatewayOrders : PaymentCaptured(g)

OrderNext ==
  \/ OrderPurchase
  \/ OrderPay
  \/ OrderVerify
  \/ OrderPayFound
  \/ OrderGateway
  \/ OrderSimulated
  \/ OrderVerifyFound
  \/ OrderSave
  \/ OrderCredit
  \/ OrderCapture

OrderSpec == OrderInit /\ [][OrderNext]_vars

\* ------------------------------------------------------------------------
\* Properties of the order routes
\* ------------------------------------------------------------------------

\* C19: verify marks an order COMPLETED and credits gold only on a valid
\* gateway signature for the payment of the gateway order that pay created
\* for that same order: every credit made by verify, and every order that
\* verify left COMPLETED, carries a matching signature of a captured payment
\* whose gateway order has this order as its receipt.
C19_VerifySameOrder ==
  /\ \A k \in 1..Len(credited) :
       credited[k].by = "verify" =>
         /\ signatureMatches(credited[k].body)
         /\ credited[k].body.razorpay_order_id \in captured
         /\ gatewayOrders[credited[k].body.razorpay_order_id].receipt = credited[k].order
  /\ \A o \in 1..Len(orders) :
       (orders[o].status = "COMPLETED" /\ orders[o].gatewayOrderId # 0) =>
         /\ orders[o].gatewayOrderId \in captured
         /\ gatewayOrders[orders[o].gatewayOrderId].receipt = o

\* C20: with no Razorpay credentials configured, paying a PENDING order
\* succeeds in demo mode and never ends in FAILED: no pay handler marks its
\* order FAILED and no order is FAILED.
C20_DemoPaySucceeds ==
  razorpay = NoCredentials =>
    /\ \A o \in 1..Len(orders) : orders[o].status # "FAILED"
    /\ \A h \in DOMAIN handlers :
         handlers[h].kind = "pay" => handlers[h].doc.status # "FAILED"


\* ------------------------------------------------------------------------
\* LimitSpec: one client sends requests through the rate limiters
\* ------------------------------------------------------------------------

\* how many requests the client sends
MaxLimitRequests == 11

\* how many windows end
MaxLimitWindows == 1

\* the address the client connects from
ClientIp == <<"1", ".", "2", ".", "3", ".", "4">>

\* the paths the client asks for
LimitPaths == {"/api/auth", "/api/gold"}

\* the X-Forwarded-For headers the client sends: none, an empty first entry,
\* and entries of its own choosing
LimitHeaders ==
  {[present |-> FALSE, value |-> <<>>],
   [present |-> TRUE, value |-> <<" ", ",", "9">>],
   [present |-> TRUE, value |-> <<" ", "9", " ", ",", "8">>]}

LimitRequest ==
  \E path \in LimitPaths, header \in LimitHeaders :
    /\ limited.id < MaxLimitRequests
    /\ LimitedRequest(path, [forwardedFor |-> header, ip |-> ClientIp])

LimitWindow == ticks < MaxLimitWindows /\ WindowEnds

LimitNext ==
  \/ LimitRequest
  \/ LimitWindow

LimitInit == PriceInit /\ geminiApiKey = "key"

LimitSpec == LimitInit /\ [][LimitNext]_vars

\* the client's requests that reached the handlers behind a limiter in the
\* current window
reachedBehind(limiter) ==
  LET at(path) == IF path \in DOMAIN reached THEN reached[path] ELSE 0
  IN CASE limiter = "/api/auth" -> at("/api/auth")
       [] limiter = "/api/chat" -> at("/api/chat")
       [] OTHER -> at("/api/auth") + at("/api/chat") + at("/api/gold")

\* C21: within a window at most 10 requests to /api/auth, 50 to /api/chat
\* and 100 to /api of one client reach the route handlers, whatever
\* headers the client sends
C21_ClientBounded ==
  \A limiter \in {"/api/auth", "/api/chat", "/api"} :
    reachedBehind(limiter) <= limitMax(limiter)


\* ------------------------------------------------------------------------
\* CreditSpec: one user pays and verifies one order
\* ------------------------------------------------------------------------

\* how many orders the user places
MaxCreditOrders == 1

\* how many pay and verify requests the user sends
MaxCreditRequests == 3

CreditPurchase ==
  \E grams \in OrderGrams : Len(orders) < MaxCreditOrders /\ Purchase(1, grams)

CreditPay ==
  \E o \in 1..MaxCreditOrders :
    handled < MaxCreditRequests /\ OrderRequest("pay", 1, o, NoBody)

CreditVerify ==
  \E o \in 1..MaxCreditOrders, body \in VerifyBodies :
    handled < MaxCreditRequests /\ OrderRequest("verify", 1, o, body)

CreditNext ==
  \/ CreditPurchase
  \/ CreditPay
  \/ CreditVerify
  \/ OrderPayFound
  \/ OrderGateway
  \/ OrderSimulated
  \/ OrderVerifyFound
  \/ OrderSave
  \/ OrderCredit
  \/ OrderCapture

CreditSpec == OrderInit /\ [][CreditNext]_vars

\* the grams of the orders in S
RECURSIVE gramsOfOrders(_)
gramsOfOrders(S) ==
  IF S = {} THEN 0
  ELSE LET o == CHOOSE x \in S : TRUE
       IN orders[o].grams + gramsOfOrders(S \ {o})

\* the orders of user u for which gold was credited
creditedOrders(u) ==
  {o \in 1..Len(orders) :
     orders[o].userId = u /\ \E k \in 1..Len(credited) : credited[k].order = o}

\* C22: each order credits its owner's gold at most once, over every
\* sequence and interleaving of pay and verify requests for it: the gold a
\* user holds never exceeds the grams of the orders credited to them
C22_CreditedOnce ==
  \A u \in DOMAIN goldGrams : goldGrams[u] <= gramsOfOrders(creditedOrders(u))


\* ------------------------------------------------------------------------
\* Properties of getCurrentPrice's two branches
\* ------------------------------------------------------------------------

C24_StoredForTwentyMinutes ==
  [][/\ (returned'.id # returned.id /\ returned'.path \in {"fallback", "ai", "aifail"}) =>
          \E n \in 1..Len(responseCache') :
            /\ startsWith(responseCache'[n].key,
                          trim(toLowerCase(returned'.message.s)) \o <<"_">>)
            /\ responseCache'[n].timestamp = now'
            /\ responseCache'[n].response.message = returned'.result.reply.message
            /\ responseCache'[n].response.source = returned'.result.reply.source
     /\ \A n \in 1..Len(responseCache') :
          responseCache'[n].response.message # getErrorResponse.message
     /\ \A n \in 1..Len(responseCache) :
          now' - responseCache[n].timestamp < cacheExpiry =>
            /\ cacheHit(responseCache', responseCache[n].key, now')
            /\ cachedResponse(responseCache', responseCache[n].key)
                 = responseCache[n].response]_vars


\* ------------------------------------------------------------------------
\* Properties of the choice between model and fallback
\* ------------------------------------------------------------------------

\* the fallback of the intent of the message that the call returned last
\* was made with, at the price the call used
fallbackOfReturned ==
  getFallbackResponse(analyzeIntent(returned.message.s),
                      returned.result.reply.metadata.goldPrice)

\* the call that returned last gave the fallback of its message's intent
returnedFallback ==
  /\ returned.result.kind = "reply"
  /\ returned.result.reply.message = fallbackOfReturned.message
  /\ returned.result.reply.suggestions = fallbackOfReturned.suggestions
  /\ returned.result.reply.source = "fallback"

\* C25: processMessage pushes a job for the model only when the key is
\* configured and at least 3 s have passed since lastRequestTime; a call
\* that does not returns the fallback of its intent without pushing a job,
\* and a call whose job was rejected returns that same fallback.
C25_ModelOrFallback ==
  /\ [][enqueued' # enqueued =>
          /\ geminiApiKey = "key"
          /\ now - lastRequestTime >= 3000
          /\ returned' = returned]_vars
  /\ [][(returned'.id # returned.id /\ returned'.path = "fallback") =>
          /\ geminiApiKey # "key" \/ now - lastRequestTime < 3000
          /\ enqueued' = enqueued
          /\ \A k \in 1..Len(enqueued) : enqueued[k] # returned'.id]_vars
  /\ [](returned.path \in {"fallback", "aifail"} => returnedFallback)
  /\ [](returned.path \in {"ai", "aifail"} =>
          \E k \in 1..Len(enqueued) : enqueued[k] = returned.id)
  /\ [](\A k \in 1..Len(dispatched) :
          \E j \in 1..Len(enqueued) : enqueued[j] = dispatched[k].caller)

\* with the key configured, the first call pushed a job and its model call
\* was recorded; the second call, made within 3 s of that, returned the
\* fallback of its intent and pushed no job
C25_Witness ==
  /\ geminiApiKey = "key"
  /\ enqueued = <<1>>
  /\ lastRequestTime = now
  /\ returned.id = 2
  /\ returned.path = "fallback"
  /\ returnedFallback


\* ------------------------------------------------------------------------
\* Properties of concurrent cache misses of getCurrentPrice
\* ------------------------------------------------------------------------

\* C26: under every interleaving of getCurrentPrice calls that miss the
\* cache, lastUpdated never decreases, and the entry written by a call is
\* never overwritten by a call that started at an earlier time and finished
\* later.
C26_NewestEntryStays ==
  [][/\ priceCache' # NoPrice => priceCache'.lastUpdated >= priceCache.lastUpdated
     /\ (/\ quote'.id # quote.id
         /\ quote'.source = "api"
         /\ quote.source = "api"
         /\ priceCache.price = quote.price
         /\ priceCache.lastUpdated = quote.timestamp)
          => quote'.timestamp >= quote.timestamp]_vars


\* ------------------------------------------------------------------------
\* Properties of the intent a reply carries
\* ------------------------------------------------------------------------

\* C27: the intent that a reply to a message carries is the classification
\* of that message, cache hits included: two messages that share a cache
\* key classify to the same category.
C27_IntentOfMessage ==
  (returned.id # 0 /\ returned.path # "error") =>
    /\ returned.result.kind = "reply"
    /\ returned.result.reply.metadata.intent
         = analyzeIntent(returned.message.s).category


\* ------------------------------------------------------------------------
\* ParseSpec: the chat service with a configured key and model replies that
\* all hold a "message": "..." pair
\* ------------------------------------------------------------------------

\* how many processMessage calls a run makes
MaxParseCalls == 2

\* how many times the clock advances
MaxParseTicks == 1

\* a complete JSON object
TextJsonComplete ==
  <<"{","\"","m","e","s","s","a","g","e","\"",":"," ","\"","B","u","y"," ",
    "g","o","l","d","\"",","," ","\"","s","u","g","g","e","s","t","i","o",
    "n","s","\"",":"," ","[","\"","B","u","y","\"","]","}">>

\* a JSON object without suggestions
TextJsonMessageOnly ==
  <<"{","\"","m","e","s","s","a","g","e","\"",":"," ","\"","H","o","l","d",
    " ","g","o","l","d","\"","}">>

\* a JSON-looking object that JSON.parse rejects: Buy is no JSON value
TextJsonMalformed ==
  <<"{","\"","m","e","s","s","a","g","e","\"",":"," ","\"","S","e","l","l",
    " ","g","o","l","d","\"",","," ","\"","s","u","g","g","e","s","t","i",
    "o","n","s","\"",":"," ","[","B","u","y","]","}">>

\* prose around a pair
TextProseWithPair ==
  <<"S","u","r","e","."," ","\"","m","e","s","s","a","g","e","\"",":"," ",
    "\"","K","e","e","p"," ","g","o","l","d","\""," ","i","s"," ","m","y",
    " ","a","n","s","w","e","r">>

ParseTexts == {TextJsonComplete, TextJsonMessageOnly, TextJsonMalformed,
               TextProseWithPair}

\* the value of the "message": "..." pair of each text
ParseMessages == {JsString(matchMessageValue(t)) : t \in ParseTexts}

ParseInit == Init /\ geminiApiKey = "key"

ParseCall ==
  \E m \in Messages, ctx \in Contexts : started < MaxParseCalls /\ ProcessMessage(m, ctx)

ParsePrice == \E c \in DOMAIN calls, o \in PriceOutcomes : PriceSettles(c, o)

ParseAvailable == \E c \in DOMAIN calls : AvailabilityKnown(c)

ParseTimer == \E d \in 1..Len(drains) : TimerFires(d)

ParseReply ==
  \E d \in 1..Len(drains), t \in ParseTexts : ModelReturns(d, [ok |-> TRUE, text |-> t])

ParseKnown == \E c \in DOMAIN calls : AIResponseKnown(c)

ParseTick == ticks < MaxParseTicks /\ Tick(minRequestInterval)

ParseNext ==
  \/ ParseCall
  \/ ParsePrice
  \/ ParseAvailable
  \/ ParseTimer
  \/ ParseReply
  \/ ParseKnown
  \/ ParseTick

ParseSpec == ParseInit /\ [][ParseNext]_vars

\* C28: reply parsing falls through its strategies in order: a model text
\* that holds a "message": "..." pair and is not taken whole as clean text
\* gives a reply from the full-JSON strategy or, when that yields none (a
\* malformed JSON candidate included), the pair's value with source
\* gemini_extracted.  Every model text of this specification holds such a
\* pair.
C28_FallsThrough ==
  returned.path = "ai" =>
    \/ returned.result.reply.source = "gemini_json"
    \/ /\ returned.result.reply.source = "gemini_extracted"
       /\ returned.result.reply.message \in ParseMessages


\* ------------------------------------------------------------------------
\* PriceParseSpec: the price service with a configured key and model
\* replies that all hold a price in range in one of the four formats
\* ------------------------------------------------------------------------

\* how many getCurrentPrice calls a run makes
MaxPriceParseCalls == 2

\* how many times the clock advances
MaxPriceParseTicks == 2

\* a bare number in range
PriceTextBare ==
  <<"6","8","5","0">>

\* two comma-grouped numbers, the second one in range
PriceTextSecondComma ==
  <<"1","2",",","3","4","5"," ","o","r"," ","6",",","8","5","0">>

\* a currency-adjacent number out of range and a comma-grouped one in range
PriceTextCommaAfterCurrency ==
  <<"R","s",".","9","9","9","9","9"," ","o","r"," ","7",",","1","0","0">>

\* two digit runs, the second one in range
PriceTextSecondRun ==
  <<"a","b","o","u","t"," ","1","0","0","0",","," ","a","t"," ","m","o","s",
    "t"," ","6","9","0","0">>

PriceParseTexts == {PriceTextBare, PriceTextSecondComma, PriceTextCommaAfterCurrency,
                    PriceTextSecondRun}

\* the candidates in range that the texts hold
PriceParseCandidates == {6850, 7100, 6900}

PriceParseInit == PriceInit /\ geminiApiKey = "key"

PriceParseCall ==
  \E sample \in PriceSamples :
    priceStarted < MaxPriceParseCalls /\ GetCurrentPrice(sample)

PriceParseReply ==
  \E c \in DOMAIN priceCalls, t \in PriceParseTexts :
    GeminiPriceReturns(c, [ok |-> TRUE, text |-> t], PriceSamples)

PriceParseQuote == \E c \in DOMAIN priceCalls : PriceReturns(c)

PriceParseTick == ticks < MaxPriceParseTicks /\ Tick(cacheDuration)

PriceParseNext ==
  \/ PriceParseCall
  \/ PriceParseReply
  \/ PriceParseQuote
  \/ PriceParseTick

PriceParseSpec == PriceParseInit /\ [][PriceParseNext]_vars

\* C29: price parsing returns the first candidate in [5500, 8000] over the
\* four formats in order and fails only when the reply holds no candidate
\* in range in any format: every model reply of this specification holds
\* one, so every model call gives a price, and it is one of the candidates.
C29_InRangeCandidateFound ==
  (quote.id # 0 /\ quote.model # "none") =>
    /\ quote.model = "ok"
    /\ quote.origin = "model"
    /\ quote.price \in PriceParseCandidates


\* ------------------------------------------------------------------------
\* SessionSpec: users and anonymous clients post to, rate and delete chat
\* sessions
\* ------------------------------------------------------------------------

\* how many requests for sessions a run makes
MaxSessionRequests == 3

\* req.user?._id: 0 for a request without a valid token
SessionUsers == {0, 1, 2}

\* the session ids that requests name
SessionIds == {1, 2}

\* the message ids that feedback names: the welcome message and the first reply
SessionMessageIds == {1, 3}

SessionPosted ==
  \E u \in SessionUsers, s \in SessionIds :
    sessionChange.id < MaxSessionRequests /\ SessionPost(u, s)

SessionDeleted ==
  \E u \in SessionUsers, s \in SessionIds :
    sessionChange.id < MaxSessionRequests /\ SessionDelete(u, s)

SessionRated ==
  \E u \in SessionUsers, s \in SessionIds, m \in SessionMessageIds :
    sessionChange.id < MaxSessionRequests /\ SessionFeedback(u, s, m)

SessionNext ==
  \/ SessionPosted
  \/ SessionDeleted
  \/ SessionRated

SessionSpec == LimitInit /\ [][SessionNext]_vars

\* C30: a chat session owned by a logged-in user is changed only by requests
\* authenticated as that user: no anonymous request and no request of
\* another user appends messages to it, attaches feedback to it or
\* deactivates it.
C30_OwnerOnly ==
  (sessionChange.changed /\ sessionChange.owner # 0) =>
    sessionChange.by = sessionChange.owner

\* ------------------------------------------------------------------------
\* AccountSpec: a browser signs up, sends authenticated requests and
\* outlives its token
\* ------------------------------------------------------------------------

MaxSignups == 2

MaxAuthRequests == 2

MaxTokenTicks == 1

SignupEmails == {<<"a","n","n","@","b",".","c","o">>, <<"b","o","b","@","b",".","c","o">>}

\* a body that meets the signup schema
SignupBodyValid(email) ==
  [name |-> <<"A","n","n"," ","L","e","e">>, email |-> email, password |-> <<"S","e","c","r","e","t","1">>, confirmPassword |-> <<"S","e","c","r","e","t","1">>]

\* the bodies sent: the valid one and, for each rule of the schema, one
\* that breaks that rule alone; a blank name as well
SignupBodies ==
  UNION {{SignupBodyValid(e),
          [SignupBodyValid(e) EXCEPT !.confirmPassword = <<"S","e","c","r","e","t","2">>],
          [SignupBodyValid(e) EXCEPT !.password = <<"A","b","1">>, !.confirmPassword = <<"A","b","1">>],
          [SignupBodyValid(e) EXCEPT !.password = <<"s","e","c","r","e","t","s">>, !.confirmPassword = <<"s","e","c","r","e","t","s">>],
          [SignupBodyValid(e) EXCEPT !.name = <<"A">>],
          [SignupBodyValid(e) EXCEPT !.name = <<"A","n","n"," ","2">>],
          [SignupBodyValid(e) EXCEPT !.name = <<" ">>]} : e \in SignupEmails}

AccountSignup ==
  \E body \in SignupBodies : signupAnswer.id < MaxSignups /\ ClientSignup(body)

AccountRequest == authAnswer.id < MaxAuthRequests /\ ClientRequest

AccountTick == ticks < MaxTokenTicks /\ TokenExpires

AccountNext ==
  \/ AccountSignup
  \/ AccountRequest
  \/ AccountTick

AccountSpec == LimitInit /\ [][AccountNext]_vars

\* C31: a signup request whose body violates the signup schema (password
\* and confirmPassword differ, a password shorter than 6 characters or
\* without a lowercase letter, an uppercase letter and a digit, a name
\* outside 2-50 letters) is answered 400 and creates no user.
C31_InvalidSignupRejected ==
  (signupAnswer.id > 0 /\ ~zodParses("signup body", signupAnswer.body))
    => (signupAnswer.status = 400 /\ ~signupAnswer.created)

\* C37: whenever an authenticated route rejects a request because the
\* browser's token is invalid or expired, the browser afterwards holds
\* neither the token nor the user.
C37_BadTokenCleared ==
  authAnswer.error \in {"Invalid or expired token", "Invalid token"}
    => client = [token |-> NoToken, user |-> 0]

\* ------------------------------------------------------------------------
\* SerialSpec: one user, one order, and pay and verify requests sent one
\* after the other, each when the one before it was answered
\* ------------------------------------------------------------------------

\* how many pay and verify requests the user sends
MaxSerialRequests == 3

SerialPay ==
  \E o \in 1..MaxCreditOrders :
    /\ handled < MaxSerialRequests
    /\ handlers = <<>>
    /\ OrderRequest("pay", 1, o, NoBody)

SerialVerify ==
  \E o \in 1..MaxCreditOrders, body \in VerifyBodies :
    /\ handled < MaxSerialRequests
    /\ handlers = <<>>
    /\ OrderRequest("verify", 1, o, body)

SerialNext ==
  \/ CreditPurchase
  \/ SerialPay
  \/ SerialVerify
  \/ OrderPayFound
  \/ OrderGateway
  \/ OrderSimulated
  \/ OrderVerifyFound
  \/ OrderSave
  \/ OrderCredit
  \/ OrderCapture

SerialSpec == OrderInit /\ [][SerialNext]_vars

\* C32: COMPLETED and FAILED are terminal: no step of a pay or verify
\* request that arrived after an order became COMPLETED or FAILED changes
\* the order's status.
C32_TerminalStates ==
  [][\A o \in 1..Len(orders) :
       orders[o].status \in {"COMPLETED", "FAILED"} =>
         orders'[o].status = orders[o].status]_vars

\* C33: whenever a pay or verify request has been answered and its order is
\* COMPLETED, the owner's gold includes the order's grams, also when the
\* asset update failed.
C33_CompletedIsCredited ==
  (/\ orderAnswer.id > 0
   /\ handlers = <<>>
   /\ orderAnswer.order \in 1..Len(orders)
   /\ orders[orderAnswer.order].status = "COMPLETED")
    => loadedGrams(orders[orderAnswer.order].userId) >= orders[orderAnswer.order].grams

\* ------------------------------------------------------------------------
\* RefreshSpec: getCurrentPrice and refreshPrice calls, in any interleaving
\* ------------------------------------------------------------------------

\* how many getCurrentPrice and refreshPrice calls a run makes
MaxRefreshCalls == 2

\* how many times the clock advances in a run
MaxRefreshTicks == 1

RefreshGet ==
  \E sample \in PriceSamples :
    priceStarted < MaxRefreshCalls /\ GetCurrentPrice(sample)

RefreshForced ==
  \E sample \in PriceSamples :
    priceStarted < MaxRefreshCalls /\ RefreshPrice(sample)

RefreshModel ==
  \E c \in DOMAIN priceCalls, o \in PriceModelOutcomes :
    GeminiPriceReturns(c, o, PriceSamples)

RefreshReturns == \E c \in DOMAIN priceCalls : PriceReturns(c)

RefreshTick == ticks < MaxRefreshTicks /\ Tick(cacheDuration)

RefreshNext ==
  \/ RefreshGet
  \/ RefreshForced
  \/ RefreshModel
  \/ RefreshReturns
  \/ RefreshTick

RefreshSpec == PriceInit /\ [][RefreshNext]_vars

\* C34: refreshPrice always performs a fresh fetch.  A step that starts a
\* call and leaves the cache empty (refreshPrice, or getCurrentPrice on an
\* empty cache) returns no quote, enters fetchFromAPI and leaves lastAiFetch
\* alone; a call that fetched returns its price tagged api, never cache,
\* and when no other call is in progress the cache then holds exactly that
\* price; lastAiFetch changes only when a model call returns a valid price,
\* to the time of the call that made it.
C34_RefreshFetches ==
  /\ [][(priceStarted' # priceStarted /\ priceCache' = NoPrice) =>
          /\ quote' = quote
          /\ priceStarted' \in DOMAIN priceCalls'
          /\ lastAiFetch' = lastAiFetch]_vars
  /\ [][(priceStarted' = priceStarted /\ quote'.id # quote.id) =>
          /\ quote'.kind = "quote"
          /\ quote'.source = "api"
          /\ DOMAIN priceCalls = {quote'.id} =>
               /\ priceCache'.price = quote'.price
               /\ priceCache'.lastUpdated = quote'.timestamp]_vars
  /\ [][lastAiFetch' # lastAiFetch =>
          \E c \in DOMAIN priceCalls :
            /\ priceCalls[c].pc = "awaitGemini"
            /\ priceCalls'[c].model = "ok"
            /\ lastAiFetch' = priceCalls[c].now]_vars

\* the first call stored a model price; the second, a refreshPrice made at
\* once after it, found the throttle closed, fetched a synthesized price and
\* returned it tagged api, and the cache holds that price
C34_Witness ==
  /\ priceStarted = 2
  /\ priceCalls = <<>>
  /\ ticks = 0
  /\ quote.id = 2
  /\ quote.source = "api"
  /\ quote.origin = "synth"
  /\ quote.model = "none"
  /\ lastAiFetch = ProcessStart
  /\ promised = {[price |-> quote.price, timestamp |-> quote.timestamp]}
  /\ priceCache.price = quote.price
  /\ priceCache.lastUpdated = quote.timestamp

\* ------------------------------------------------------------------------
\* Properties of getPriceHistory's effects
\* ------------------------------------------------------------------------

\* C35: getPriceHistory dispatches no model call and leaves the price cache
\* and lastAiFetch unchanged, for every period and with or without a cached
\* price: a step that returns a history changes nothing of the price
\* service and adds no model call of either service.
C35_HistoryReadsOnly ==
  [][priceHistory' # priceHistory =>
       /\ priceCache' = priceCache
       /\ lastAiFetch' = lastAiFetch
       /\ priceDispatched' = priceDispatched
       /\ priceCalls' = priceCalls
       /\ priceStarted' = priceStarted
       /\ dispatched' = dispatched]_vars

\* the second history, for a month, was built around the cached model
\* price 6850 (its first point is 6850 - 100), and the cache still holds it
C35_Witness ==
  /\ priceHistory.id = 2
  /\ priceHistory.period = "1m"
  /\ priceHistory.data[1].price = 6750
  /\ priceCache.price = 6850
  /\ priceCache.origin = "model"
  /\ lastAiFetch = priceCache.lastUpdated

\* ------------------------------------------------------------------------
\* Properties of the fallback table
\* ------------------------------------------------------------------------

\* C36: the fallback reply for an intent is the table entry of its category
\* (the gold_general entry for price_inquiry and general) with the gold
\* price substituted into its message: the message of a fallback reply
\* contains the price the reply was made with.
C36_FallbackHoldsPrice ==
  returned.path = "fallback" =>
    LET reply == returned.result.reply
    IN /\ reply.source = "fallback"
       /\ reply.suggestions = [table |-> "fallbackResponses",
                               row |-> fallbackRow(reply.metadata.intent)]
       /\ includes(reply.message.s, NumberToString(reply.metadata.goldPrice))

====
